---------------------------- MODULE Spec2Model ----------------------------
(***************************************************************************)
(* Verification development for the advent-of-code-2020 solutions.  Every  *)
(* day is an independent program, so every day has its own variables, its  *)
(* own initial predicate and its own specification (SpecD08, SpecD11, ...).*)
(* While one day runs, the variables of the other days stay at their idle  *)
(* values.                                                                 *)
(*                                                                         *)
(* Rust slices are 0-based, TLA+ sequences 1-based: the element at Rust    *)
(* index i of a slice s is written At(s, i).                               *)
(***************************************************************************)
EXTENDS Integers, Sequences, FiniteSets, TLC

VARIABLES
    \* ---- day 8 (src/days/d08.rs) ----
    instructions,                     \* Vec<BootCodeInstruction>
    d08_part,                         \* which entry point runs: "part_1" | "part_2"
    d08_pc,                           \* position in the entry point
    instruction_counter,              \* BootCodeEmulator.instruction_counter
    accumulator,                      \* BootCodeEmulator.accumulator
    previously_seen_inst_counters,    \* HashSet<usize>
    change_idx,                       \* part_2: index of the flipped instruction
    changes_with_interesting_results, \* part_2: Vec<anyhow::Result<(usize, i32)>>
    d08_result,                       \* what the entry point returned
    d08_executed,                     \* history: indices executed in the current run
    \* ---- day 11 (src/days/d11.rs) ----
    map_copies,                       \* WaitingAreaSeatingSimulation.map_copies
    curr_map_idx,                     \* WaitingAreaSeatingSimulation.curr_map_idx
    occupant_behavior,                \* the behaviour handed to every next_step
    d11_returned,                     \* what the last next_step returned
    d11_prev_state,                   \* history: current_state() before that call
    \* ---- day 10 (src/days/d10.rs) ----
    adapters,                         \* JoltageAdapterSet.0
    d10_p1,                           \* part 1: max joltage and diff_counts()
    d10_p2,                           \* part 2: num_valid_variants()
    \* ---- day 12 (src/days/d12.rs) ----
    d12_navigatable,                  \* what `navigate` drives: "Ship" | "NavigationSystem"
    position,                         \* Ship.position
    orientation,                      \* Ship.orientation
    ship_position,                    \* NavigationSystem.ship_position
    waypoint,                         \* NavigationSystem.waypoint
    d12_inst,                         \* the instruction of the last navigate call
    d12_result,                       \* what that call returned
    d12_navigated,                    \* number of instructions navigated
    \* ---- day 1 (src/days/d01.rs) ----
    expense_report_entries,           \* the parsed lines of the input
    num_entries,                      \* the parameter num_entries
    entries_stack,                    \* Vec<(usize, u32)>
    d01_pc,                           \* position in find_2020_sum_constituents
    d01_result,                       \* what it returned
    \* ---- day 13 (src/days/d13.rs) ----
    initial_wait,                     \* Part1Data.initial_wait
    bus_ids,                          \* Part1Data.bus_ids
    d13_calc,                         \* what Part1Calculation::new returned
    \* ---- day 9 (src/days/d09.rs) ----
    data,                             \* XmasEncryptedData.data
    preamble_len,                     \* XmasEncryptedData.preamble_len
    d09_p1,                           \* what part_1 returned
    d09_p2,                           \* what part_2 returned
    \* ---- day 7 (tests/d07.rs) ----
    rule_lines,                       \* the lines of the input, parsed syntactically
    d07_entry,                        \* "parse_luggage_rules" | "part_1" | "part_2"
    d07_result,                       \* what the entry point returned
    \* ---- day 3 (tests/d03.rs) ----
    area_tiles,                       \* TobogganArea.tiles
    definition_width,                 \* TobogganArea.definition_width
    horiz_step,                       \* TobogganSlope.horiz_step
    current_pos,                      \* captured by the iterator's closure
    current_logical_vert_pos,         \* captured by the iterator's closure
    d03_pc,                           \* "call" | "iterating" | "exhausted" | "failed"
    d03_yielded,                      \* history: the tiles the iterator yielded
    d03_positions,                    \* history: the offsets they were read from
    \* ---- day 5 (tests/d05.rs) ----
    d05_s,                            \* the string handed to SeatId::from_str
    d05_seat_id,                      \* what from_str returned
    d05_row_and_seat,                 \* what row_and_seat returned for that id
    \* ---- day 2 (tests/d02.rs) ----
    d02_entry,                        \* the function called
    d02_lines,                        \* s.lines() of the input of part_1 / part_2
    d02_policy,                       \* the ActualPasswordPolicy validate is called on
    d02_password,                     \* the password handed to validate
    d02_result                        \* what the function returned

d08vars == <<instructions, d08_part, d08_pc, instruction_counter, accumulator,
             previously_seen_inst_counters, change_idx,
             changes_with_interesting_results, d08_result, d08_executed>>

d11vars == <<map_copies, curr_map_idx, occupant_behavior, d11_returned,
             d11_prev_state>>

d10vars == <<adapters, d10_p1, d10_p2>>

d12vars == <<d12_navigatable, position, orientation, ship_position, waypoint,
             d12_inst, d12_result, d12_navigated>>

d01vars == <<expense_report_entries, num_entries, entries_stack, d01_pc,
             d01_result>>

d13vars == <<initial_wait, bus_ids, d13_calc>>

d09vars == <<data, preamble_len, d09_p1, d09_p2>>

d07vars == <<rule_lines, d07_entry, d07_result>>

d03vars == <<area_tiles, definition_width, horiz_step, current_pos,
             current_logical_vert_pos, d03_pc, d03_yielded, d03_positions>>

d05vars == <<d05_s, d05_seat_id, d05_row_and_seat>>

d02vars == <<d02_entry, d02_lines, d02_policy, d02_password, d02_result>>

vars == <<d08vars, d11vars, d10vars, d12vars, d01vars, d13vars, d09vars,
          d07vars, d03vars, d05vars, d02vars>>

\* What each day leaves alone: the variables of the other days.
OnlyD08 == UNCHANGED <<d11vars, d10vars, d12vars, d01vars, d13vars, d09vars,
                       d07vars, d03vars, d05vars, d02vars>>

OnlyD11 == UNCHANGED <<d08vars, d10vars, d12vars, d01vars, d13vars, d09vars,
                       d07vars, d03vars, d05vars, d02vars>>

OnlyD10 == UNCHANGED <<d08vars, d11vars, d12vars, d01vars, d13vars, d09vars,
                       d07vars, d03vars, d05vars, d02vars>>

OnlyD12 == UNCHANGED <<d08vars, d11vars, d10vars, d01vars, d13vars, d09vars,
                       d07vars, d03vars, d05vars, d02vars>>

OnlyD01 == UNCHANGED <<d08vars, d11vars, d10vars, d12vars, d13vars, d09vars,
                       d07vars, d03vars, d05vars, d02vars>>

OnlyD13 == UNCHANGED <<d08vars, d11vars, d10vars, d12vars, d01vars, d09vars,
                       d07vars, d03vars, d05vars, d02vars>>

OnlyD09 == UNCHANGED <<d08vars, d11vars, d10vars, d12vars, d01vars, d13vars,
                       d07vars, d03vars, d05vars, d02vars>>

OnlyD07 == UNCHANGED <<d08vars, d11vars, d10vars, d12vars, d01vars, d13vars,
                       d09vars, d03vars, d05vars, d02vars>>

OnlyD03 == UNCHANGED <<d08vars, d11vars, d10vars, d12vars, d01vars, d13vars,
                       d09vars, d07vars, d05vars, d02vars>>

OnlyD05 == UNCHANGED <<d08vars, d11vars, d10vars, d12vars, d01vars, d13vars,
                       d09vars, d07vars, d03vars, d02vars>>

OnlyD02 == UNCHANGED <<d08vars, d11vars, d10vars, d12vars, d01vars, d13vars,
                       d09vars, d07vars, d03vars, d05vars>>

At(s, i) == s[i + 1]

InBounds(s, i) == i >= 0 /\ i < Len(s)

\* No value yet: the entry point has not returned (a day not running keeps it).
NoResult == [kind |-> "NoResult"]

Ok(v) == [kind |-> "Ok", value |-> v]

Err(why) == [kind |-> "Err", why |-> why]

Panic(why) == [kind |-> "Panic", why |-> why]

\* Option<T>
Some(v) == [some |-> TRUE, v |-> v]

None == [some |-> FALSE]

(***************************************************************************)
(*                               DAY 8                                     *)
(***************************************************************************)

\* Longest program drawn.
MaxProgLen == 3

\* Largest argument drawn: the i16 of `argument` is scaled to
\* -(MaxArg + 1) .. MaxArg.
MaxArg == 1

I16Max == MaxArg

I16Min == 0 - I16Max - 1

I32Max == 2147483647

I32Min == -I32Max - 1

BootCodeOperation == {"Accumulate", "Jump", "NoOp"}

BootCodeInstruction ==
    [operation : BootCodeOperation, argument : I16Min..I16Max]

SeqsUpTo(S, n) == UNION {[1..k -> S] : k \in 0..n}

\* BootCodeEmulator::zeroed
Zeroed == [instruction_counter |-> 0, accumulator |-> 0]

\* i16::checked_neg: None for the one value whose negation is not an i16.
CheckedNegI16(x) == IF x = I16Min THEN None ELSE Some(0 - x)

\* What a call of execute_single_instruction leaves behind: ok = TRUE for
\* Ok(()), ok = FALSE for an Err return or, with panic = TRUE, for a panic.
\* On a failure the counter and the accumulator read afterwards are those
\* of the moment of the failure.
Executed(ok, panic, ic, acc) ==
    [ok |-> ok, panic |-> panic, instruction_counter |-> ic, accumulator |-> acc]

\* BootCodeEmulator::execute_single_instruction on the emulator state
\* (ic, acc).
ExecuteSingleInstruction(ic, acc, instrs) ==
    IF ~InBounds(instrs, ic)
    THEN Executed(FALSE, FALSE, ic, acc)
    ELSE LET instruction == At(instrs, ic)
             argument == instruction.argument
         IN  CASE instruction.operation = "NoOp" ->
                    Executed(TRUE, FALSE, ic + 1, acc)
               [] instruction.operation = "Jump" ->
                    IF argument > 0
                    THEN Executed(TRUE, FALSE, ic + argument, acc)
                    ELSE LET negated == CheckedNegI16(argument)
                         IN  IF ~negated.some
                             THEN Executed(FALSE, TRUE, ic, acc)
                             ELSE IF ic - negated.v >= 0
                                  THEN Executed(TRUE, FALSE, ic - negated.v, acc)
                                  ELSE Executed(FALSE, FALSE, ic, acc)
               [] instruction.operation = "Accumulate" ->
                    IF acc + argument >= I32Min /\ acc + argument <= I32Max
                    THEN Executed(TRUE, FALSE, ic + 1, acc + argument)
                    ELSE Executed(FALSE, FALSE, ic, acc)

\* What part_1 and part_2 end with when a call of
\* execute_single_instruction fails.
Failed(r, why) ==
    IF r.panic
    THEN Panic("called Option::unwrap() on a None value")
    ELSE Err(why)

\* part_2's match on the operation to change: acc is filtered out.
Changed(operation) ==
    CASE operation = "NoOp" -> "Jump"
      [] operation = "Jump" -> "NoOp"
      [] operation = "Accumulate" -> "Accumulate"

WithOperation(instrs, idx, operation) ==
    [instrs EXCEPT ![idx + 1].operation = operation]

D08Init ==
    /\ instructions \in SeqsUpTo(BootCodeInstruction, MaxProgLen)
    /\ d08_part \in {"part_1", "part_2"}
    /\ d08_pc = IF d08_part = "part_1" THEN "run" ELSE "next_change"
    /\ instruction_counter = Zeroed.instruction_counter
    /\ accumulator = Zeroed.accumulator
    /\ previously_seen_inst_counters = {}
    /\ change_idx = 0
    /\ changes_with_interesting_results = <<>>
    /\ d08_result = NoResult
    /\ d08_executed = <<>>

D08Idle ==
    /\ instructions = <<>>
    /\ d08_part = "idle"
    /\ d08_pc = "idle"
    /\ instruction_counter = 0
    /\ accumulator = 0
    /\ previously_seen_inst_counters = {}
    /\ change_idx = 0
    /\ changes_with_interesting_results = <<>>
    /\ d08_result = NoResult
    /\ d08_executed = <<>>

\* part_1 written as a do-while: the instruction runs before its counter is
\* looked up, so the starting counter is never recorded.
Part1StepDoWhile ==
    /\ d08_part = "part_1"
    /\ d08_pc = "run"
    /\ LET r == ExecuteSingleInstruction(instruction_counter, accumulator,
                                         instructions)
       IN  /\ instruction_counter' = r.instruction_counter
           /\ accumulator' = r.accumulator
           /\ IF ~r.ok
              THEN /\ d08_pc' = "returned"
                   /\ d08_result' = Failed(r, "execute_single_instruction")
                   /\ UNCHANGED <<d08_executed, previously_seen_inst_counters>>
              ELSE /\ d08_executed' = Append(d08_executed, instruction_counter)
                   /\ IF r.instruction_counter \in previously_seen_inst_counters
                      THEN /\ d08_pc' = "returned"
                           /\ d08_result' = Ok(r.accumulator)
                           /\ UNCHANGED previously_seen_inst_counters
                      ELSE /\ previously_seen_inst_counters' =
                                 previously_seen_inst_counters
                                     \cup {r.instruction_counter}
                           /\ UNCHANGED <<d08_pc, d08_result>>
    /\ UNCHANGED <<instructions, d08_part, change_idx,
                   changes_with_interesting_results>>
    /\ OnlyD08

\* One evaluation of part_1's `while seen.insert(counter) { execute()?; }`,
\* and the return that follows the loop.
Part1Step ==
    /\ d08_part = "part_1"
    /\ d08_pc = "run"
    /\ IF instruction_counter \in previously_seen_inst_counters
       THEN /\ d08_pc' = "returned"
            /\ d08_result' = Ok(accumulator)
            /\ UNCHANGED <<instruction_counter, accumulator,
                           previously_seen_inst_counters, d08_executed>>
       ELSE LET r == ExecuteSingleInstruction(instruction_counter, accumulator,
                                              instructions)
            IN  /\ previously_seen_inst_counters' =
                       previously_seen_inst_counters \cup {instruction_counter}
                /\ instruction_counter' = r.instruction_counter
                /\ accumulator' = r.accumulator
                /\ IF r.ok
                   THEN /\ d08_executed' =
                               Append(d08_executed, instruction_counter)
                        /\ UNCHANGED <<d08_pc, d08_result>>
                   ELSE /\ d08_pc' = "returned"
                        /\ d08_result' = Failed(r, "execute_single_instruction")
                        /\ UNCHANGED d08_executed
    /\ UNCHANGED <<instructions, d08_part, change_idx,
                   changes_with_interesting_results>>
    /\ OnlyD08

\* part_2's filter_map closure up to the inner loop, for the next
\* change_idx; past the last index, the collect and the final
\* `.first().unwrap().as_ref().unwrap().1`.
Part2NextChange ==
    /\ d08_part = "part_2"
    /\ d08_pc = "next_change"
    /\ IF change_idx = Len(instructions)
       THEN /\ d08_pc' = "returned"
            /\ d08_result' =
                 IF changes_with_interesting_results = <<>>
                 THEN Panic("first() is None")
                 ELSE IF changes_with_interesting_results[1].kind = "Err"
                      THEN Panic("first() is Err")
                      ELSE Ok(changes_with_interesting_results[1].value[2])
            /\ UNCHANGED <<instructions, change_idx, instruction_counter,
                           accumulator, previously_seen_inst_counters,
                           d08_executed>>
       ELSE IF At(instructions, change_idx).operation = "Accumulate"
            THEN /\ change_idx' = change_idx + 1
                 /\ UNCHANGED <<instructions, d08_pc, d08_result,
                                instruction_counter, accumulator,
                                previously_seen_inst_counters, d08_executed>>
            ELSE /\ instructions' =
                      WithOperation(instructions, change_idx,
                          Changed(At(instructions, change_idx).operation))
                 /\ previously_seen_inst_counters' = {}
                 /\ instruction_counter' = Zeroed.instruction_counter
                 /\ accumulator' = Zeroed.accumulator
                 /\ d08_executed' = <<>>
                 /\ d08_pc' = "run"
                 /\ UNCHANGED <<change_idx, d08_result>>
    /\ UNCHANGED <<d08_part, changes_with_interesting_results>>
    /\ OnlyD08

\* The end of the filter_map closure: the operation is restored and the
\* closure's value, when it is Some, is collected.
Part2EndChange(filtered) ==
    /\ instructions' =
          WithOperation(instructions, change_idx,
              Changed(At(instructions, change_idx).operation))
    /\ changes_with_interesting_results' =
          IF filtered = NoResult
          THEN changes_with_interesting_results
          ELSE Append(changes_with_interesting_results, filtered)
    /\ change_idx' = change_idx + 1
    /\ d08_pc' = "next_change"

\* One iteration of the inner `loop` of part_2.  A panic ends part_2 and
\* drops the vector; `instructions` then reads as the parsed program again.
Part2Step ==
    /\ d08_part = "part_2"
    /\ d08_pc = "run"
    /\ IF instruction_counter = Len(instructions)
       THEN /\ Part2EndChange(Ok(<<change_idx, accumulator>>))
            /\ UNCHANGED <<instruction_counter, accumulator,
                           previously_seen_inst_counters, d08_executed,
                           d08_result>>
       ELSE IF instruction_counter \in previously_seen_inst_counters
            THEN /\ Part2EndChange(NoResult)
                 /\ UNCHANGED <<instruction_counter, accumulator,
                                previously_seen_inst_counters, d08_executed,
                                d08_result>>
            ELSE LET r == ExecuteSingleInstruction(instruction_counter,
                                                   accumulator, instructions)
                 IN  /\ previously_seen_inst_counters' =
                            previously_seen_inst_counters
                                \cup {instruction_counter}
                     /\ instruction_counter' = r.instruction_counter
                     /\ accumulator' = r.accumulator
                     /\ IF r.ok
                        THEN /\ d08_executed' =
                                    Append(d08_executed, instruction_counter)
                             /\ UNCHANGED <<instructions, change_idx, d08_pc,
                                            changes_with_interesting_results,
                                            d08_result>>
                        ELSE IF r.panic
                             THEN /\ d08_pc' = "returned"
                                  /\ d08_result' = Failed(r, "")
                                  /\ instructions' =
                                        WithOperation(instructions, change_idx,
                                            Changed(At(instructions,
                                                       change_idx).operation))
                                  /\ UNCHANGED <<change_idx,
                                                 changes_with_interesting_results,
                                                 d08_executed>>
                             ELSE /\ Part2EndChange(Err("replacing instruction"))
                                  /\ UNCHANGED <<d08_executed, d08_result>>
    /\ UNCHANGED d08_part
    /\ OnlyD08

NextD08 == Part1Step \/ Part2NextChange \/ Part2Step

(***************************************************************************)
(*                               DAY 11                                    *)
(***************************************************************************)

\* Widest and tallest map drawn, and the most tiles a drawn map has.
MaxWidth == 3

MaxHeight == 3

MaxTiles == 9

\* WaitingAreaMapTile, written as its character (from_char / as_char).
OCCUPIED_SEAT == "#"

UNOCCUPIED_SEAT == "L"

FLOOR == "."

WaitingAreaMapTile == {UNOCCUPIED_SEAT, OCCUPIED_SEAT, FLOOR}

Min(a, b) == IF a <= b THEN a ELSE b

\* The rectangular maps WaitingAreaMap::from_str builds: every line as long
\* as the first one.
WaitingAreaMaps ==
    UNION {[tiles : [1..(w * h) -> WaitingAreaMapTile], map_width : {w}] :
              <<w, h>> \in {d \in (1..MaxWidth) \X (1..MaxHeight) :
                                d[1] * d[2] <= MaxTiles}}

TranslateOffsetIntoHumanCoords(offset, width) ==
    [x |-> offset % width, y |-> offset \div width]

\* The two assertions (x < width, offset < area) hold on every call made on
\* a rectangular map.
TranslateHumanCoordsIntoOffset(coords, width, area) ==
    coords.y * width + coords.x

\* tiles[lo ..= hi], lo and hi being 0-based offsets.
TileRange(tiles, lo, hi) == [k \in 1..(hi - lo + 1) |-> At(tiles, lo + k - 1)]

\* The closure gather_window_with_center_at made to run across the end of a
\* row: the window is offset - 1 ..= offset + 1, cut to the map only.
GatherWindowWrapping(offset, width, area) ==
    [lo |-> IF offset = 0 THEN 0 ELSE offset - 1,
     hi |-> Min(offset + 1, area - 1)]

\* The closure gather_window_with_center_at of get_adjacent_tiles: the
\* offsets of the row of `offset` from column x - 1 to column x + 1, cut to
\* the row.
GatherWindowWithCenterAt(offset, width, area) ==
    LET c == TranslateOffsetIntoHumanCoords(offset, width)
        start == IF c.x = 0 THEN 0 ELSE c.x - 1
        end == Min(c.x + 1, width - 1)
    IN  [lo |-> TranslateHumanCoordsIntoOffset([x |-> start, y |-> c.y],
                                               width, area),
         hi |-> TranslateHumanCoordsIntoOffset([x |-> end, y |-> c.y],
                                               width, area)]

\* WaitingAreaMap::get_adjacent_tiles: the tiles pushed to `areas`, in order.
GetAdjacentTiles(map, offset) ==
    LET width == map.map_width
        tiles == map.tiles
        area == Len(tiles)
        Window(o) == GatherWindowWithCenterAt(o, width, area)
        top == IF offset - width >= 0
               THEN TileRange(tiles, Window(offset - width).lo,
                              Window(offset - width).hi)
               ELSE <<>>
        mid == TileRange(tiles, Window(offset).lo, offset - 1)
                 \o TileRange(tiles, offset + 1, Window(offset).hi)
        bottom == IF offset + width < Len(tiles)
                  THEN TileRange(tiles, Window(offset + width).lo,
                                 Window(offset + width).hi)
                  ELSE <<>>
    IN  top \o mid \o bottom

\* The eight (ox, oy) pairs of get_visible_seats, in the order of its array;
\* "Stay" is the None of the pair.
VisibleDirections ==
    << <<"Stay", "PlusOne">>, <<"Stay", "NegOne">>,
       <<"PlusOne", "Stay">>, <<"NegOne", "Stay">>,
       <<"PlusOne", "PlusOne">>, <<"PlusOne", "NegOne">>,
       <<"NegOne", "PlusOne">>, <<"NegOne", "NegOne">> >>

\* `op.map(|op| op.apply(pos).filter(|&p| p < limit)).unwrap_or(Some(pos))`
OffsetOpStep(op, pos, limit) ==
    CASE op = "Stay" -> [some |-> TRUE, pos |-> pos]
      [] op = "PlusOne" -> [some |-> pos + 1 < limit, pos |-> pos + 1]
      [] op = "NegOne" -> [some |-> pos >= 1 /\ pos - 1 < limit,
                           pos |-> pos - 1]

\* get_visible_seats looking no further than the adjacent tile: a floor tile
\* ends the search of its direction.
FirstSeatAdjacentOnly(map, x, y, ox, oy) ==
    LET map_width == map.map_width
        area == Len(map.tiles)
        map_height == area \div map_width
        nx == OffsetOpStep(ox, x, map_width)
        ny == OffsetOpStep(oy, y, map_height)
    IN  IF ~nx.some \/ ~ny.some
        THEN <<>>
        ELSE LET tile == At(map.tiles, TranslateHumanCoordsIntoOffset(
                              [x |-> nx.pos, y |-> ny.pos], map_width, area))
             IN  IF tile = FLOOR THEN <<>> ELSE << tile = OCCUPIED_SEAT >>

\* The successors(..).skip(1).find_map(..) of one direction: the occupancy
\* of the first seat met from (x, y), or nothing.
RECURSIVE FirstSeatFrom(_, _, _, _, _)
FirstSeatFrom(map, x, y, ox, oy) ==
    LET map_width == map.map_width
        area == Len(map.tiles)
        map_height == area \div map_width
        nx == OffsetOpStep(ox, x, map_width)
        ny == OffsetOpStep(oy, y, map_height)
    IN  IF ~nx.some \/ ~ny.some
        THEN <<>>
        ELSE LET tile == At(map.tiles, TranslateHumanCoordsIntoOffset(
                              [x |-> nx.pos, y |-> ny.pos], map_width, area))
             IN  IF tile = FLOOR
                 THEN FirstSeatFrom(map, nx.pos, ny.pos, ox, oy)
                 ELSE << tile = OCCUPIED_SEAT >>

\* WaitingAreaMap::get_visible_seats: the booleans the iterator yields.
GetVisibleSeats(map, offset) ==
    LET c == TranslateOffsetIntoHumanCoords(offset, map.map_width)
        Seen(d) == FirstSeatFrom(map, c.x, c.y, VisibleDirections[d][1],
                                 VisibleDirections[d][2])
    IN  Seen(1) \o Seen(2) \o Seen(3) \o Seen(4)
          \o Seen(5) \o Seen(6) \o Seen(7) \o Seen(8)

\* How many of the first k elements of s equal v.
CountIn(s, k, v) == Cardinality({j \in 1..k : s[j] = v})

WouldEnterSeat(behavior, prev_map, tile_idx) ==
    IF behavior = "Part1OccupantBehavior"
    THEN LET adj == GetAdjacentTiles(prev_map, tile_idx)
         IN  \A k \in 1..Len(adj) : adj[k] # OCCUPIED_SEAT
    ELSE LET seen == GetVisibleSeats(prev_map, tile_idx)
         IN  \A k \in 1..Len(seen) : ~seen[k]

\* Part 1: `find` with a closure that counts the occupied seats so far and
\* answers `count == 4`.  Part 2: `filter(occupied).count() >= 5`.
WouldLeaveSeat(behavior, prev_map, tile_idx) ==
    IF behavior = "Part1OccupantBehavior"
    THEN LET adj == GetAdjacentTiles(prev_map, tile_idx)
         IN  \E k \in 1..Len(adj) : CountIn(adj, k, OCCUPIED_SEAT) = 4
    ELSE LET seen == GetVisibleSeats(prev_map, tile_idx)
         IN  CountIn(seen, Len(seen), TRUE) >= 5

\* The guard of the two arms of next_step's match that set `changed`.
RuleFires(behavior, prev_map, idx) ==
    \/ At(prev_map.tiles, idx) = UNOCCUPIED_SEAT
         /\ WouldEnterSeat(behavior, prev_map, idx)
    \/ At(prev_map.tiles, idx) = OCCUPIED_SEAT
         /\ WouldLeaveSeat(behavior, prev_map, idx)

\* The value next_step's match gives to *next_tile.
NextTile(behavior, prev_map, idx) ==
    LET prev_tile == At(prev_map.tiles, idx)
    IN  IF prev_tile = UNOCCUPIED_SEAT
             /\ WouldEnterSeat(behavior, prev_map, idx)
        THEN OCCUPIED_SEAT
        ELSE IF prev_tile = OCCUPIED_SEAT
                  /\ WouldLeaveSeat(behavior, prev_map, idx)
             THEN UNOCCUPIED_SEAT
             ELSE prev_tile

\* WaitingAreaSeatingSimulation::current_state
CurrentState == At(map_copies, curr_map_idx)

\* WaitingAreaSeatingSimulation::new, on a parsed starting map.
D11Init ==
    /\ \E starting_map \in WaitingAreaMaps :
          /\ map_copies = <<starting_map, starting_map>>
          /\ d11_prev_state = starting_map
    /\ curr_map_idx = 0
    /\ occupant_behavior \in {"Part1OccupantBehavior", "Part2OccupantBehavior"}
    /\ d11_returned = NoResult

D11Idle ==
    /\ map_copies = <<>>
    /\ d11_prev_state = <<>>
    /\ curr_map_idx = 0
    /\ occupant_behavior = "idle"
    /\ d11_returned = NoResult

\* next_step that sets `changed` for every tile it writes.
NextStepAlwaysChanged ==
    /\ occupant_behavior # "idle"
    /\ LET prev_map == At(map_copies, curr_map_idx)
           next_map_idx == 1 - curr_map_idx
           next_tiles == [i \in 1..Len(prev_map.tiles) |->
                             NextTile(occupant_behavior, prev_map, i - 1)]
           changed == Len(prev_map.tiles) > 0
       IN  /\ map_copies' =
                 [map_copies EXCEPT ![next_map_idx + 1].tiles = next_tiles]
           /\ d11_prev_state' = prev_map
           /\ IF changed
              THEN /\ curr_map_idx' = next_map_idx
                   /\ d11_returned' =
                        [kind |-> "Some", map |-> map_copies'[next_map_idx + 1]]
              ELSE /\ curr_map_idx' = curr_map_idx
                   /\ d11_returned' = [kind |-> "None"]
    /\ UNCHANGED occupant_behavior
    /\ OnlyD11

\* next_step that sets `changed` only when somebody sits down.
NextStepEnterOnly ==
    /\ occupant_behavior # "idle"
    /\ LET prev_map == At(map_copies, curr_map_idx)
           next_map_idx == 1 - curr_map_idx
           next_tiles == [i \in 1..Len(prev_map.tiles) |->
                             NextTile(occupant_behavior, prev_map, i - 1)]
           changed == \E idx \in 0..(Len(prev_map.tiles) - 1) :
                         /\ At(prev_map.tiles, idx) = UNOCCUPIED_SEAT
                         /\ WouldEnterSeat(occupant_behavior, prev_map, idx)
       IN  /\ map_copies' =
                 [map_copies EXCEPT ![next_map_idx + 1].tiles = next_tiles]
           /\ d11_prev_state' = prev_map
           /\ IF changed
              THEN /\ curr_map_idx' = next_map_idx
                   /\ d11_returned' =
                        [kind |-> "Some", map |-> map_copies'[next_map_idx + 1]]
              ELSE /\ curr_map_idx' = curr_map_idx
                   /\ d11_returned' = [kind |-> "None"]
    /\ UNCHANGED occupant_behavior
    /\ OnlyD11

\* WaitingAreaSeatingSimulation::next_step
NextStep ==
    /\ occupant_behavior # "idle"
    /\ LET prev_map == At(map_copies, curr_map_idx)
           next_map_idx == 1 - curr_map_idx
           next_tiles == [i \in 1..Len(prev_map.tiles) |->
                             NextTile(occupant_behavior, prev_map, i - 1)]
           changed == \E idx \in 0..(Len(prev_map.tiles) - 1) :
                         RuleFires(occupant_behavior, prev_map, idx)
       IN  /\ map_copies' =
                 [map_copies EXCEPT ![next_map_idx + 1].tiles = next_tiles]
           /\ d11_prev_state' = prev_map
           /\ IF changed
              THEN /\ curr_map_idx' = next_map_idx
                   /\ d11_returned' =
                        [kind |-> "Some", map |-> map_copies'[next_map_idx + 1]]
              ELSE /\ curr_map_idx' = curr_map_idx
                   /\ d11_returned' = [kind |-> "None"]
    /\ UNCHANGED occupant_behavior
    /\ OnlyD11

NextD11 == NextStep

(***************************************************************************)
(*                               DAY 10                                    *)
(***************************************************************************)

\* Highest adapter rating drawn.
MaxJoltage == 8

\* The elements of a set of numbers in ascending order (Vec::sort).
RECURSIVE SortedSeq(_)
SortedSeq(S) ==
    IF S = {}
    THEN <<>>
    ELSE LET m == CHOOSE x \in S : \A y \in S : y <= x
         IN  Append(SortedSeq(S \ {m}), m)

\* JoltageAdapterSet::from_str on the lines of a non-empty set of distinct
\* ratings: 0 is pushed and the vector is sorted.
JoltageAdapterSets ==
    {SortedSeq(S \cup {0}) : S \in (SUBSET (1..MaxJoltage)) \ {{}}}

\* JoltageAdapterSet::joltage_flows_between_adapters; the vector is sorted,
\* so the checked_sub never fails.
JoltageFlowsBetweenAdapters(source, target) == (target - source) \in 1..3

\* The indices connectable() keeps from `windows(2).zip(1..).take_while`.
ConnectedEndIdxs(set) ==
    {end_idx \in 1..(Len(set) - 1) :
        \A k \in 1..end_idx :
            JoltageFlowsBetweenAdapters(At(set, k - 1), At(set, k))}

\* JoltageAdapterSet::connectable: the slice self[1 ..= end_idx]; `last()`
\* of an empty iterator makes the unwrap panic.
Connectable(set) ==
    IF ConnectedEndIdxs(set) = {}
    THEN Panic("connectable: last() is None")
    ELSE LET end_idx == CHOOSE e \in ConnectedEndIdxs(set) :
                            \A f \in ConnectedEndIdxs(set) : f <= e
         IN  Ok(SubSeq(set, 2, end_idx + 1))

\* The closure accumulate_diff of diff_counts.
AccumulateDiff(diff_counts, diff) ==
    CASE diff = 1 -> [diff_counts EXCEPT !.single = @ + 1]
      [] diff = 2 -> diff_counts
      [] diff = 3 -> [diff_counts EXCEPT !.triple = @ + 1]

\* diff_counts' `windows(2).for_each`, from window k on.
RECURSIVE AccumulateWindows(_, _, _)
AccumulateWindows(diff_counts, slice, k) ==
    IF k >= Len(slice)
    THEN diff_counts
    ELSE AccumulateWindows(
             AccumulateDiff(diff_counts, slice[k + 1] - slice[k]),
             slice, k + 1)

\* diff_counts that forgets the step from the outlet to the lowest adapter.
DiffCountsNoFirst(slice) ==
    AccumulateWindows([single |-> 0, triple |-> 1], slice, 1)

\* ConnectableJoltageAdapterSet::diff_counts
DiffCounts(slice) ==
    AccumulateWindows(
        AccumulateDiff([single |-> 0, triple |-> 1], slice[1]), slice, 1)

RECURSIVE Pow2(_)
Pow2(n) == IF n = 0 THEN 1 ELSE 2 * Pow2(n - 1)

\* PossibilityAccumulator::new
NewPossibilityAccumulator ==
    [last_skippable |-> 0, num_consecutive_single_steps |-> 0,
     num_possible_sequences |-> 1]

\* PossibilityAccumulator::on_break_single_step_skippable_streak; with the
\* ratings drawn neither checked_pow nor checked_mul overflows a usize.
OnBreakSingleStepSkippableStreak(acc) ==
    LET naive_new_possibilities == Pow2(acc.num_consecutive_single_steps)
    IN  [acc EXCEPT
            !.num_possible_sequences =
                @ * (naive_new_possibilities
                        - ((naive_new_possibilities * 3) \div 16)),
            !.num_consecutive_single_steps = 0]

\* PossibilityAccumulator::accumulate
Accumulate(acc, skippable) ==
    LET counted ==
            IF acc.last_skippable + 1 = skippable
            THEN [acc EXCEPT !.num_consecutive_single_steps = @ + 1]
            ELSE [OnBreakSingleStepSkippableStreak(acc) EXCEPT
                     !.num_consecutive_single_steps = 1]
    IN  [counted EXCEPT !.last_skippable = skippable]

\* PossibilityAccumulator::finished
Finished(acc) == OnBreakSingleStepSkippableStreak(acc).num_possible_sequences

\* num_valid_variants' `windows(3).filter_map(..).try_for_each(accumulate)`,
\* from window k on: the middle of a window is accumulated when joltage
\* flows from its left to its right element.
RECURSIVE AccumulateSkippables(_, _, _)
AccumulateSkippables(acc, set, k) ==
    IF k + 2 > Len(set)
    THEN acc
    ELSE AccumulateSkippables(
             IF JoltageFlowsBetweenAdapters(set[k], set[k + 2])
             THEN Accumulate(acc, set[k + 1])
             ELSE acc,
             set, k + 1)

\* JoltageAdapterSet::num_valid_variants
NumValidVariants(set) ==
    Finished(AccumulateSkippables(NewPossibilityAccumulator, set, 1))

D10Init ==
    /\ adapters \in JoltageAdapterSets
    /\ d10_p1 = NoResult
    /\ d10_p2 = NoResult

D10Idle ==
    /\ adapters = <<>>
    /\ d10_p1 = NoResult
    /\ d10_p2 = NoResult

\* The body of test_sample / p1_answer: connectable(), the maximum joltage
\* and diff_counts().
D10Part1 ==
    /\ adapters # <<>>
    /\ d10_p1 = NoResult
    /\ LET connectable_adapters == Connectable(adapters)
       IN  d10_p1' =
             IF connectable_adapters.kind = "Panic"
             THEN connectable_adapters
             ELSE LET slice == connectable_adapters.value
                  IN  Ok([max_joltage |-> slice[Len(slice)] + 3,
                          diff_counts |-> DiffCounts(slice)])
    /\ UNCHANGED <<adapters, d10_p2>>
    /\ OnlyD10

\* part_2
D10Part2 ==
    /\ adapters # <<>>
    /\ d10_p2 = NoResult
    /\ d10_p2' = Ok(NumValidVariants(adapters))
    /\ UNCHANGED <<adapters, d10_p1>>
    /\ OnlyD10

NextD10 == D10Part1 \/ D10Part2

(***************************************************************************)
(*                               DAY 12                                    *)
(***************************************************************************)

\* Coordinates are i64 and units are u62, two bits narrower.  Both widths
\* are scaled down together: a coordinate has CoordBits bits, a unit
\* CoordBits - 2, so that the checked arithmetic overflows where the
\* program's does, after the same instructions.
CoordBits == 6

\* Longest list of instructions navigated.
MaxInstructions == 4

I64Max == Pow2(CoordBits - 1) - 1

I64Min == 0 - Pow2(CoordBits - 1)

U62Max == Pow2(CoordBits - 2) - 1

CheckedAdd(a, b) == IF a + b >= I64Min /\ a + b <= I64Max THEN Some(a + b) ELSE None

CheckedSub(a, b) == IF a - b >= I64Min /\ a - b <= I64Max THEN Some(a - b) ELSE None

CheckedMul(a, b) == IF a * b >= I64Min /\ a * b <= I64Max THEN Some(a * b) ELSE None

CheckedNeg(a) == IF a = I64Min THEN None ELSE Some(0 - a)

CardinalDirection == {"North", "East", "South", "West"}

MoveDirection == CardinalDirection \cup {"Forward", "Backward"}

\* The units drawn: small ones and the largest a u62 holds.
UnitsDrawn == {1, 3, U62Max}

\* NavigationInstruction, as NavigationInstruction::from_str builds it.
NavigationInstruction ==
    [kind : {"Move"}, direction : MoveDirection, units : UnitsDrawn]
      \cup [kind : {"Turn"}, direction : {"Left", "Right"},
            degrees : {"Ninety", "OneEighty", "TwoSeventy"}]

\* translate_pos
TranslatePos(pos, units, direction) ==
    LET x == pos[1]
        y == pos[2]
        moved == CASE direction = "North" -> CheckedAdd(y, units)
                   [] direction = "East" -> CheckedAdd(x, units)
                   [] direction = "South" -> CheckedSub(y, units)
                   [] direction = "West" -> CheckedSub(x, units)
    IN  IF ~moved.some
        THEN None
        ELSE IF direction \in {"North", "South"}
             THEN Some(<<x, moved.v>>)
             ELSE Some(<<moved.v, y>>)

\* impl Turn for CardinalDirection
SingleTurnLeftCardinal(d) ==
    CASE d = "North" -> "West" [] d = "East" -> "North"
      [] d = "South" -> "East" [] d = "West" -> "South"

SingleTurnRightCardinal(d) ==
    CASE d = "North" -> "East" [] d = "East" -> "South"
      [] d = "South" -> "West" [] d = "West" -> "North"

ReverseCardinal(d) ==
    CASE d = "North" -> "South" [] d = "East" -> "West"
      [] d = "South" -> "North" [] d = "West" -> "East"

\* impl Turn for (i64, i64)
SingleTurnLeftPair(p) ==
    IF CheckedNeg(p[2]).some THEN Some(<<CheckedNeg(p[2]).v, p[1]>>) ELSE None

SingleTurnRightPair(p) ==
    IF CheckedNeg(p[1]).some THEN Some(<<p[2], CheckedNeg(p[1]).v>>) ELSE None

ReversePair(p) ==
    IF CheckedNeg(p[1]).some /\ CheckedNeg(p[2]).some
    THEN Some(<<CheckedNeg(p[1]).v, CheckedNeg(p[2]).v>>)
    ELSE None

\* TurnInstruction::turn with the two directions of a quarter turn mixed up.
TurnMethodSwapped(inst) ==
    CASE inst.degrees = "OneEighty" -> "reverse"
      [] inst.degrees = "Ninety" /\ inst.direction = "Left" -> "single_turn_right"
      [] inst.degrees = "TwoSeventy" /\ inst.direction = "Right" -> "single_turn_right"
      [] OTHER -> "single_turn_left"

\* TurnInstruction::turn: the method of Turn its match selects.
TurnMethod(inst) ==
    CASE inst.degrees = "Ninety" /\ inst.direction = "Left" -> "single_turn_left"
      [] inst.degrees = "TwoSeventy" /\ inst.direction = "Right" -> "single_turn_left"
      [] inst.degrees = "Ninety" /\ inst.direction = "Right" -> "single_turn_right"
      [] inst.degrees = "TwoSeventy" /\ inst.direction = "Left" -> "single_turn_right"
      [] inst.degrees = "OneEighty" -> "reverse"

\* TurnInstruction::turn::<CardinalDirection>; it is always Some.
TurnCardinal(inst, d) ==
    CASE TurnMethod(inst) = "single_turn_left" -> SingleTurnLeftCardinal(d)
      [] TurnMethod(inst) = "single_turn_right" -> SingleTurnRightCardinal(d)
      [] TurnMethod(inst) = "reverse" -> ReverseCardinal(d)

\* TurnInstruction::turn::<(i64, i64)>
TurnPair(inst, p) ==
    CASE TurnMethod(inst) = "single_turn_left" -> SingleTurnLeftPair(p)
      [] TurnMethod(inst) = "single_turn_right" -> SingleTurnRightPair(p)
      [] TurnMethod(inst) = "reverse" -> ReversePair(p)

\* add_dim that moves the ship by the waypoint once, whatever the units.
AddDimOnce(dim, add, units) == CheckedAdd(dim, add)

\* The closure add_dim of NavigationSystem::navigate.
AddDim(dim, add, units) ==
    IF CheckedMul(add, units).some
    THEN CheckedAdd(dim, CheckedMul(add, units).v)
    ELSE None

\* Ship::new or NavigationSystem::new, handed to `navigate`.
D12Init ==
    /\ d12_navigatable \in {"Ship", "NavigationSystem"}
    /\ position = <<0, 0>>
    /\ orientation = "East"
    /\ ship_position = <<0, 0>>
    /\ waypoint = <<10, 1>>
    /\ d12_inst = NoResult
    /\ d12_result = NoResult
    /\ d12_navigated = 0

D12Idle ==
    /\ d12_navigatable = "idle"
    /\ position = <<0, 0>>
    /\ orientation = "East"
    /\ ship_position = <<0, 0>>
    /\ waypoint = <<10, 1>>
    /\ d12_inst = NoResult
    /\ d12_result = NoResult
    /\ d12_navigated = 0

\* The next instruction of the driver `navigate`, which stops at the first
\* error.
D12Next(inst) ==
    /\ d12_result.kind # "Err"
    /\ d12_navigated < MaxInstructions
    /\ d12_navigated' = d12_navigated + 1
    /\ d12_inst' = inst
    /\ UNCHANGED d12_navigatable
    /\ OnlyD12

\* Ship::navigate
ShipNavigate ==
    \E inst \in NavigationInstruction :
        /\ d12_navigatable = "Ship"
        /\ D12Next(inst)
        /\ IF inst.kind = "Turn"
           THEN /\ orientation' = TurnCardinal(inst, orientation)
                /\ d12_result' = Ok(<<>>)
                /\ UNCHANGED position
           ELSE LET direction ==
                        CASE inst.direction = "Forward" -> orientation
                          [] inst.direction = "Backward" ->
                               ReverseCardinal(orientation)
                          [] OTHER -> inst.direction
                    moved == TranslatePos(position, inst.units, direction)
                IN  /\ position' = IF moved.some THEN moved.v ELSE position
                    /\ d12_result' = IF moved.some THEN Ok(<<>>)
                                     ELSE Err("translate_pos")
                    /\ UNCHANGED orientation
        /\ UNCHANGED <<ship_position, waypoint>>

\* NavigationSystem::navigate
NavigationSystemNavigate ==
    \E inst \in NavigationInstruction :
        /\ d12_navigatable = "NavigationSystem"
        /\ D12Next(inst)
        /\ CASE inst.kind = "Turn" ->
                  LET turned == TurnPair(inst, waypoint)
                  IN  /\ waypoint' = IF turned.some THEN turned.v ELSE waypoint
                      /\ d12_result' = IF turned.some THEN Ok(<<>>)
                                       ELSE Err("turn")
                      /\ UNCHANGED ship_position
             [] inst.kind = "Move" /\ inst.direction \in CardinalDirection ->
                  LET moved == TranslatePos(waypoint, inst.units, inst.direction)
                  IN  /\ waypoint' = IF moved.some THEN moved.v ELSE waypoint
                      /\ d12_result' = IF moved.some THEN Ok(<<>>)
                                       ELSE Err("translate_pos")
                      /\ UNCHANGED ship_position
             [] OTHER ->
                  LET used == IF inst.direction = "Backward"
                              THEN ReversePair(waypoint)
                              ELSE Some(waypoint)
                  IN  IF ~used.some
                      THEN /\ d12_result' = Err("inverted waypoint")
                           /\ UNCHANGED <<ship_position, waypoint>>
                      ELSE LET new_x == AddDim(ship_position[1], used.v[1],
                                               inst.units)
                               new_y == AddDim(ship_position[2], used.v[2],
                                               inst.units)
                           IN  /\ ship_position' =
                                    IF new_x.some /\ new_y.some
                                    THEN <<new_x.v, new_y.v>>
                                    ELSE ship_position
                               /\ d12_result' =
                                    IF new_x.some /\ new_y.some
                                    THEN Ok(<<>>) ELSE Err("moving")
                               /\ UNCHANGED waypoint
        /\ UNCHANGED <<position, orientation>>

NextD12 == ShipNavigate \/ NavigationSystemNavigate

(***************************************************************************)
(*                               DAY 1                                     *)
(***************************************************************************)

\* Longest expense report drawn, and the largest num_entries asked for.
MaxEntries == 4

MaxNumEntries == 3

SUM_TARGET == 2020

\* The values of the report's lines.
ValuesDrawn == {0, 20, 1000, 1010, 2020, 3000}

\* The closure checked_add of find_2020_sum_constituents:
\* `sum.checked_add(entry).filter(|&s| s <= SUM_TARGET)`.  A sum that
\* overflows a u32 is above SUM_TARGET, so both give None.
CheckedAddUpToTarget(sum, entry) ==
    IF sum + entry <= SUM_TARGET THEN Some(sum + entry) ELSE None

\* The try_fold over entries_stack from element k on: Some((idx, sum)) of
\* the last element, or None once a partial sum passes SUM_TARGET.
RECURSIVE FoldStack(_, _, _, _)
FoldStack(stack, k, idx, sum) ==
    IF k > Len(stack)
    THEN Some(<<idx, sum>>)
    ELSE LET added == CheckedAddUpToTarget(sum, stack[k][2])
         IN  IF ~added.some
             THEN None
             ELSE FoldStack(stack, k + 1, stack[k][1], added.v)

\* The find_map after `.enumerate().skip(idx)`: the first entry, from
\* index idx on, that completes the sum.
FindLastEntry(entries, idx, semifinal_sum) ==
    LET found == {j \in idx..(Len(entries) - 1) :
                     /\ CheckedAddUpToTarget(semifinal_sum, At(entries, j)).some
                     /\ semifinal_sum + At(entries, j) = SUM_TARGET}
    IN  IF found = {}
        THEN None
        ELSE LET j == CHOOSE m \in found : \A o \in found : m <= o
             IN  Some(<<j, At(entries, j)>>)

\* The fold of the answer's product; with the values drawn no checked_mul
\* overflows a u32.
RECURSIVE ProductFrom(_, _)
ProductFrom(stack, k) ==
    IF k > Len(stack) THEN 1 ELSE stack[k][2] * ProductFrom(stack, k + 1)

\* The find_map over the reversed stack zipped with 1..: the last stack
\* position whose entry index can still advance.
StackIdxToAdvance(stack, len) ==
    LET able == {stack_idx \in 0..(Len(stack) - 1) :
                    (Len(stack) - stack_idx) + At(stack, stack_idx)[1] < len}
    IN  IF able = {}
        THEN None
        ELSE Some(CHOOSE s \in able : \A o \in able : o <= s)

\* The for_each that moves the stack on from stack_idx.
Advanced(stack, stack_idx, entries) ==
    LET entry_idx == At(stack, stack_idx)[1]
    IN  [k \in 1..Len(stack) |->
            IF k - 1 < stack_idx
            THEN stack[k]
            ELSE <<entry_idx + (k - stack_idx),
                   At(entries, entry_idx + (k - stack_idx))>>]

D01Init ==
    /\ expense_report_entries \in SeqsUpTo(ValuesDrawn, MaxEntries)
    /\ num_entries \in 0..MaxNumEntries
    /\ entries_stack = <<>>
    /\ d01_pc = "start"
    /\ d01_result = NoResult

D01Idle ==
    /\ expense_report_entries = <<>>
    /\ num_entries = 0
    /\ entries_stack = <<>>
    /\ d01_pc = "idle"
    /\ d01_result = NoResult

\* find_2020_sum_constituents up to its loop: the early return and the
\* first num_entries - 1 entries pushed on the stack.
D01Start ==
    /\ d01_pc = "start"
    /\ IF num_entries > Len(expense_report_entries) \/ num_entries = 0
       THEN /\ d01_pc' = "returned"
            /\ d01_result' = Ok(None)
            /\ UNCHANGED entries_stack
       ELSE /\ entries_stack' =
                 [k \in 1..(num_entries - 1) |->
                     <<k - 1, expense_report_entries[k]>>]
            /\ d01_pc' = "loop"
            /\ UNCHANGED d01_result
    /\ UNCHANGED <<expense_report_entries, num_entries>>
    /\ OnlyD01

\* One iteration of the loop of find_2020_sum_constituents.
D01Loop ==
    /\ d01_pc = "loop"
    /\ LET folded == FoldStack(entries_stack, 1, 0, 0)
           last_entry == IF folded.some
                         THEN FindLastEntry(expense_report_entries,
                                            folded.v[1], folded.v[2])
                         ELSE None
           to_advance == StackIdxToAdvance(entries_stack,
                                           Len(expense_report_entries))
       IN  IF last_entry.some
           THEN /\ entries_stack' = Append(entries_stack, last_entry.v)
                /\ d01_result' =
                     Ok(Some([entries |-> entries_stack',
                              sum |-> SUM_TARGET,
                              product |-> ProductFrom(entries_stack', 1)]))
                /\ d01_pc' = "returned"
           ELSE IF ~to_advance.some
                THEN /\ d01_result' = Ok(None)
                     /\ d01_pc' = "returned"
                     /\ UNCHANGED entries_stack
                ELSE /\ entries_stack' =
                          Advanced(entries_stack, to_advance.v,
                                   expense_report_entries)
                     /\ UNCHANGED <<d01_pc, d01_result>>
    /\ UNCHANGED <<expense_report_entries, num_entries>>
    /\ OnlyD01

NextD01 == D01Start \/ D01Loop

(***************************************************************************)
(*                               DAY 13                                    *)
(***************************************************************************)

\* Timestamps are drawn from 0 .. MaxInitialWait.
MaxInitialWait == 12

\* Bus ids are drawn from 0 .. MaxBusId, at most MaxBuses of them.
MaxBusId == 6

MaxBuses == 3

\* Part1Data::from_str: a timestamp and a non-empty list of bus ids ("x"
\* entries are filtered out before the list is built).
Part1Data ==
    [initial_wait : 0..MaxInitialWait,
     bus_ids : SeqsUpTo(0..MaxBusId, MaxBuses) \ {<<>>}]

\* The closure mapped over bus_ids in Part1Calculation::new.
WaitOf(wait, bus_id) == bus_id - (wait % bus_id)

\* Iterator::min_by_key over the (bus_id, wait) pairs: the first element
\* whose key is the least.
MinByKeyWait(wait, ids) ==
    LET k == CHOOSE i \in 1..Len(ids) :
                 /\ \A j \in 1..Len(ids) : WaitOf(wait, ids[i]) <= WaitOf(wait, ids[j])
                 /\ \A j \in 1..(i - 1) : WaitOf(wait, ids[j]) > WaitOf(wait, ids[i])
    IN  <<ids[k], WaitOf(wait, ids[k])>>

D13Init ==
    /\ \E parsed \in Part1Data :
          /\ initial_wait = parsed.initial_wait
          /\ bus_ids = parsed.bus_ids
    /\ d13_calc = NoResult

D13Idle ==
    /\ initial_wait = 0
    /\ bus_ids = <<>>
    /\ d13_calc = NoResult

\* Part1Calculation::new; `initial_wait % bus_id` panics on bus id 0.
Part1CalculationNew ==
    /\ bus_ids # <<>>
    /\ d13_calc = NoResult
    /\ d13_calc' =
         IF \E i \in 1..Len(bus_ids) : bus_ids[i] = 0
         THEN Panic("attempt to calculate the remainder with a divisor of zero")
         ELSE LET soonest == MinByKeyWait(initial_wait, bus_ids)
              IN  Ok([soonest_bus |-> soonest[1],
                      wait_after_initial |-> soonest[2]])
    /\ UNCHANGED <<initial_wait, bus_ids>>
    /\ OnlyD13

NextD13 == Part1CalculationNew

(***************************************************************************)
(*                               DAY 9                                     *)
(***************************************************************************)

\* The entries are u64; the model keeps the checked arithmetic and scales
\* the width to U64Bits bits.
U64Bits == 4

\* Longest data list drawn, and the largest preamble length.
MaxDataLen == 5

MaxPreambleLen == 3

U64Max == Pow2(U64Bits) - 1

CheckedAddU64(a, b) == IF a + b <= U64Max THEN Some(a + b) ELSE None

\* The values of the lines handed to XmasEncryptedData::parse.
DataValuesDrawn == {0, 1, 2, 3, U64Max}

\* is_strong with `skip(multiplier_start - 1)`: the augend may be added to
\* itself.
IsStrongWithItself(previous_values, next_check_value) ==
    \E i \in 1..Len(previous_values) :
        \E j \in i..Len(previous_values) :
            LET sum == CheckedAddU64(previous_values[i], previous_values[j])
            IN  sum.some /\ sum.v = next_check_value

\* `is_strong` of find_first_weakness: some augend of the window and some
\* addend after it in the window add up, without overflow, to the value.
IsStrong(previous_values, next_check_value) ==
    \E i \in 1..Len(previous_values) :
        \E j \in (i + 1)..Len(previous_values) :
            LET sum == CheckedAddU64(previous_values[i], previous_values[j])
            IN  sum.some /\ sum.v = next_check_value

\* XmasEncryptedData::find_first_weakness: window k of data.windows(
\* preamble_len) is zipped with the entry at index preamble_len + k.
FindFirstWeakness(d, p) ==
    LET weak == {next_check_idx \in p..(Len(d) - 1) :
                    ~IsStrong(SubSeq(d, next_check_idx - p + 1, next_check_idx),
                              At(d, next_check_idx))}
    IN  IF weak = {}
        THEN None
        ELSE LET first == CHOOSE i \in weak : \A o \in weak : i <= o
             IN  Some(<<first, At(d, first)>>)

\* part_1
Part1D09(d, p) ==
    LET weakness == FindFirstWeakness(d, p)
    IN  IF weakness.some THEN Ok(weakness.v) ELSE Err("no weak data found")

\* The `for` loop of part_2's find_map closure from entry end_idx on:
\* Some(end_idx) when the running sum meets the weakness value.
RECURSIVE SequenceEnd(_, _, _, _)
SequenceEnd(d, sum, end_idx, weakness_value) ==
    IF end_idx >= Len(d)
    THEN None
    ELSE LET new_sum == CheckedAddU64(sum, At(d, end_idx))
         IN  IF ~new_sum.some
             THEN None
             ELSE IF new_sum.v = weakness_value
                  THEN Some(end_idx)
                  ELSE IF new_sum.v > weakness_value
                       THEN None
                       ELSE SequenceEnd(d, new_sum.v, end_idx + 1,
                                        weakness_value)

\* part_2's filter and find_map: the first start below the weakness value
\* whose loop returns a slice.
FindSequence(d, weakness_value) ==
    LET starts == {start_idx \in 0..(Len(d) - 1) :
                      /\ At(d, start_idx) < weakness_value
                      /\ SequenceEnd(d, At(d, start_idx), start_idx + 1,
                                     weakness_value).some}
    IN  IF starts = {}
        THEN None
        ELSE LET start_idx == CHOOSE s \in starts : \A o \in starts : s <= o
                 end_idx == SequenceEnd(d, At(d, start_idx), start_idx + 1,
                                        weakness_value).v
             IN  Some(SubSeq(d, start_idx + 1, end_idx + 1))

SeqMin(s) == CHOOSE x \in {s[k] : k \in 1..Len(s)} : \A k \in 1..Len(s) : x <= s[k]

SeqMax(s) == CHOOSE x \in {s[k] : k \in 1..Len(s)} : \A k \in 1..Len(s) : s[k] <= x

\* part_2
Part2D09(d, p) ==
    LET weakness == Part1D09(d, p)
    IN  IF weakness.kind = "Err"
        THEN weakness
        ELSE LET sequence == FindSequence(d, weakness.value[2])
             IN  IF ~sequence.some
                 THEN Err("no contiguous sequence adding up to first weakness found")
                 ELSE Ok(<<SeqMin(sequence.v), SeqMax(sequence.v),
                           SeqMin(sequence.v) + SeqMax(sequence.v)>>)

D09Init ==
    /\ data \in SeqsUpTo(DataValuesDrawn, MaxDataLen)
    /\ preamble_len \in 1..MaxPreambleLen
    /\ d09_p1 = NoResult
    /\ d09_p2 = NoResult

D09Idle ==
    /\ data = <<>>
    /\ preamble_len = 0
    /\ d09_p1 = NoResult
    /\ d09_p2 = NoResult

D09Part1 ==
    /\ preamble_len > 0
    /\ d09_p1 = NoResult
    /\ d09_p1' = Part1D09(data, preamble_len)
    /\ UNCHANGED <<data, preamble_len, d09_p2>>
    /\ OnlyD09

D09Part2 ==
    /\ preamble_len > 0
    /\ d09_p2 = NoResult
    /\ d09_p2' = Part2D09(data, preamble_len)
    /\ UNCHANGED <<data, preamble_len, d09_p1>>
    /\ OnlyD09

NextD09 == D09Part1 \/ D09Part2

(***************************************************************************)
(*                               DAY 7                                     *)
(***************************************************************************)

\* Most colours a line names as contained.
MaxContained == 2

\* num_bags_for_color counts in u32 with checked arithmetic; the model
\* scales the width to U32Bits bits.
U32Bits == 3

U32Max == Pow2(U32Bits) - 1

\* The colours of the input, in a fixed order used to write down the
\* iteration orders of the hash maps.
ColourSeq == <<"shiny gold", "dark red", "faded blue">>

Colours == {ColourSeq[i] : i \in 1..Len(ColourSeq)}

\* The NonZeroU8 counts of the input.
CountsDrawn == {1, 2}

\* A syntactically valid line "<color> bags contain <bags_inside>."; each
\* contained colour is named once ("no other bags" is the empty map).
RuleLines ==
    [color : Colours,
     bags_inside : UNION {[T -> CountsDrawn] :
                            T \in {U \in SUBSET Colours :
                                      Cardinality(U) <= MaxContained}}]

EmptyMap == [k \in {} |-> 0]

\* HashMap::insert
MapInsert(m, k, v) == [x \in (DOMAIN m) \cup {k} |-> IF x = k THEN v ELSE m[x]]

\* parse_luggage_rules from line k on: the closure of lines 59-127 on every
\* line, stopping at the first error, then the `ensure!` on unverified.
RECURSIVE ParseLines(_, _, _, _)
ParseLines(lines, k, rules, unverified) ==
    IF k > Len(lines)
    THEN IF unverified = {}
         THEN Ok(rules)
         ELSE Err("bag colors referred to as contained are unspecified")
    ELSE LET color == lines[k].color
             bags_inside == lines[k].bags_inside
         IN  IF color \in DOMAIN rules
             THEN Err("duplicate rule")
             ELSE ParseLines(
                      lines, k + 1,
                      MapInsert(rules, color, bags_inside),
                      (unverified \ {color})
                          \cup {contained_color \in DOMAIN bags_inside :
                                   contained_color \notin DOMAIN rules})

ParseLuggageRules(lines) == ParseLines(lines, 1, EmptyMap, {})

Reverse(s) == [i \in 1..Len(s) |-> s[Len(s) + 1 - i]]

\* The keys of a hash map in one of its iteration orders: a rule has at most
\* MaxContained keys, and the flag picks the order of two.
KeysInOrder(S, reversed) ==
    LET ascending == SelectSeq(ColourSeq, LAMBDA c : c \in S)
    IN  IF reversed THEN Reverse(ascending) ELSE ascending

\* Every iteration order of the keys of luggage_rules.
KeyOrders(S) ==
    {p \in [1..Cardinality(S) -> S] :
        \A i, j \in 1..Cardinality(S) : i # j => p[i] # p[j]}

Returned(memo, answer) == [kind |-> "Returned", memo |-> memo, answer |-> answer]

\* `luggage_rules.get(container).unwrap()` on a colour that has no rule.
NoRuleForContainer ==
    Panic("called Option::unwrap() on a None value: luggage_rules.get(container)")

\* The recursion never returns and the thread overflows its stack.
StackOverflow == [kind |-> "StackOverflow"]

\* does_color_contain_color at recursion depth `depth`.  No colour is
\* memoised before its call returns, so a call deeper than the number of
\* rules has a colour twice on the stack and recurses for ever.
RECURSIVE DoesColorContainColor(_, _, _, _, _, _)
RECURSIVE AnyContained(_, _, _, _, _, _, _)
DoesColorContainColor(memo, luggage_rules, reversed, container, containee, depth) ==
    IF container \in DOMAIN memo
    THEN Returned(memo, memo[container])
    ELSE IF container \notin DOMAIN luggage_rules
         THEN NoRuleForContainer
         ELSE IF depth > Cardinality(DOMAIN luggage_rules)
              THEN StackOverflow
              ELSE LET any == AnyContained(
                                  memo, luggage_rules, reversed,
                                  KeysInOrder(DOMAIN luggage_rules[container],
                                              reversed[container]),
                                  1, containee, depth)
                   IN  IF any.kind # "Returned"
                       THEN any
                       ELSE Returned(MapInsert(any.memo, container, any.answer),
                                     any.answer)

\* `.keys().any(...)` of does_color_contain_color, from key i on.
AnyContained(memo, luggage_rules, reversed, keys, i, containee, depth) ==
    IF i > Len(keys)
    THEN Returned(memo, FALSE)
    ELSE IF keys[i] = containee
         THEN Returned(memo, TRUE)
         ELSE LET inner == DoesColorContainColor(memo, luggage_rules, reversed,
                                                 keys[i], containee, depth + 1)
              IN  IF inner.kind # "Returned"
                  THEN inner
                  ELSE IF inner.answer
                       THEN inner
                       ELSE AnyContained(inner.memo, luggage_rules, reversed,
                                         keys, i + 1, containee, depth)

\* `luggage_rules.keys().filter(...).count()` of part_1, from key i on.
RECURSIVE FilterCount(_, _, _, _, _, _)
FilterCount(memo, luggage_rules, reversed, keys, i, count) ==
    IF i > Len(keys)
    THEN Ok(count)
    ELSE LET does == DoesColorContainColor(memo, luggage_rules, reversed,
                                           keys[i], "shiny gold", 1)
         IN  IF does.kind # "Returned"
             THEN does
             ELSE FilterCount(does.memo, luggage_rules, reversed, keys, i + 1,
                              IF does.answer THEN count + 1 ELSE count)

\* part_1, for one iteration order of each hash map.
Part1D07(lines, keys, reversed) ==
    LET luggage_rules == ParseLuggageRules(lines)
    IN  IF luggage_rules.kind = "Err"
        THEN luggage_rules
        ELSE FilterCount(EmptyMap, luggage_rules.value, reversed, keys, 1, 0)

CheckedMulU32(a, b) == IF a * b <= U32Max THEN Some(a * b) ELSE None

CheckedAddU32(a, b) == IF a + b <= U32Max THEN Some(a + b) ELSE None

\* num_bags_for_color at recursion depth `depth`.
RECURSIVE NumBagsForColor(_, _, _, _, _)
RECURSIVE FoldContained(_, _, _, _, _, _, _, _)
\* num_bags_for_color that folds from 0u32: a bag does not count itself.
NumBagsForColorFromZero(memo, luggage_rules, reversed, container, depth) ==
    IF container \in DOMAIN memo
    THEN Returned(memo, memo[container])
    ELSE IF container \notin DOMAIN luggage_rules
         THEN NoRuleForContainer
         ELSE IF depth > Cardinality(DOMAIN luggage_rules)
              THEN StackOverflow
              ELSE LET folded == FoldContained(
                                     memo, luggage_rules, reversed, container,
                                     KeysInOrder(DOMAIN luggage_rules[container],
                                                 reversed[container]),
                                     1, 0, depth)
                   IN  IF folded.kind # "Returned"
                       THEN folded
                       ELSE Returned(MapInsert(folded.memo, container,
                                               folded.answer),
                                     folded.answer)

NumBagsForColor(memo, luggage_rules, reversed, container, depth) ==
    IF container \in DOMAIN memo
    THEN Returned(memo, memo[container])
    ELSE IF container \notin DOMAIN luggage_rules
         THEN NoRuleForContainer
         ELSE IF depth > Cardinality(DOMAIN luggage_rules)
              THEN StackOverflow
              ELSE LET folded == FoldContained(
                                     memo, luggage_rules, reversed, container,
                                     KeysInOrder(DOMAIN luggage_rules[container],
                                                 reversed[container]),
                                     1, 1, depth)
                   IN  IF folded.kind # "Returned"
                       THEN folded
                       ELSE Returned(MapInsert(folded.memo, container,
                                               folded.answer),
                                     folded.answer)

\* The `.map(...).fold(1u32, ...)` of num_bags_for_color, from key i on.
FoldContained(memo, luggage_rules, reversed, container, keys, i, sum, depth) ==
    IF i > Len(keys)
    THEN Returned(memo, sum)
    ELSE LET inner == NumBagsForColor(memo, luggage_rules, reversed, keys[i],
                                      depth + 1)
         IN  IF inner.kind # "Returned"
             THEN inner
             ELSE LET count == CheckedMulU32(inner.answer,
                                             luggage_rules[container][keys[i]])
                  IN  IF ~count.some
                      THEN Panic("called Option::unwrap() on a None value")
                      ELSE IF ~CheckedAddU32(sum, count.v).some
                           THEN Panic("called Option::unwrap() on a None value")
                           ELSE FoldContained(inner.memo, luggage_rules,
                                              reversed, container, keys, i + 1,
                                              sum + count.v, depth)

\* part_2, for one iteration order of each hash map.
Part2D07(lines, reversed) ==
    LET luggage_rules == ParseLuggageRules(lines)
    IN  IF luggage_rules.kind = "Err"
        THEN luggage_rules
        ELSE LET num == NumBagsForColor(EmptyMap, luggage_rules.value, reversed,
                                        "shiny gold", 1)
             IN  IF num.kind # "Returned" THEN num ELSE Ok(num.answer - 1)

D07Init ==
    /\ rule_lines \in SeqsUpTo(RuleLines, Cardinality(Colours))
    /\ d07_entry \in {"parse_luggage_rules", "part_1", "part_2"}
    /\ d07_result = NoResult

D07Idle ==
    /\ rule_lines = <<>>
    /\ d07_entry = "idle"
    /\ d07_result = NoResult

D07ParseLuggageRules ==
    /\ d07_entry = "parse_luggage_rules"
    /\ d07_result = NoResult
    /\ d07_result' = ParseLuggageRules(rule_lines)
    /\ UNCHANGED <<rule_lines, d07_entry>>
    /\ OnlyD07

D07Part1 ==
    /\ d07_entry = "part_1"
    /\ d07_result = NoResult
    /\ LET luggage_rules == ParseLuggageRules(rule_lines)
       IN  IF luggage_rules.kind = "Err"
           THEN d07_result' = luggage_rules
           ELSE \E keys \in KeyOrders(DOMAIN luggage_rules.value) :
                    \E reversed \in [Colours -> BOOLEAN] :
                        d07_result' = Part1D07(rule_lines, keys, reversed)
    /\ UNCHANGED <<rule_lines, d07_entry>>
    /\ OnlyD07

D07Part2 ==
    /\ d07_entry = "part_2"
    /\ d07_result = NoResult
    /\ LET luggage_rules == ParseLuggageRules(rule_lines)
       IN  IF luggage_rules.kind = "Err"
           THEN d07_result' = luggage_rules
           ELSE \E reversed \in [Colours -> BOOLEAN] :
                    d07_result' = Part2D07(rule_lines, reversed)
    /\ UNCHANGED <<rule_lines, d07_entry>>
    /\ OnlyD07

NextD07 == D07ParseLuggageRules \/ D07Part1 \/ D07Part2

(***************************************************************************)
(*                               DAY 3                                     *)
(***************************************************************************)

\* Largest area drawn, the largest horizontal step, and the most trees.
MaxAreaWidth == 3

MaxAreaHeight == 4

MaxHorizStep == 3

MaxTrees == 1

TobogganAreaTile == {"OpenSquare", "Tree"}

\* TobogganArea::new on lines of equal, non-zero length: the area_tiles row by
\* row and the length of the first line.
TobogganAreas ==
    UNION {
        {[definition_width |-> w, tiles |-> t] :
            t \in {u \in [1..(w * h) -> TobogganAreaTile] :
                      Cardinality({k \in 1..(w * h) : u[k] = "Tree"}) <= MaxTrees}} :
        <<w, h>> \in (1..MaxAreaWidth) \X (1..MaxAreaHeight)}

\* The offset `new_pos` computed by the closure of iter_slope_tiles
\* (logical_vert_step is 1).  The checked_add calls cannot overflow a usize
\* on areas of the sizes drawn.
NewPosAlwaysStepping(pos, vert_pos, step, width) == step + pos + width

NewPos(pos, vert_pos, step, width) ==
    LET horiz_adjusted_pos == step + pos
        already_moved_one_logical_vert_step ==
            (horiz_adjusted_pos \div width) # vert_pos
        actual_vert_step ==
            width * (1 - (IF already_moved_one_logical_vert_step THEN 1 ELSE 0))
    IN  horiz_adjusted_pos + actual_vert_step

D03Init ==
    /\ \E area \in TobogganAreas :
          /\ area_tiles = area.tiles
          /\ definition_width = area.definition_width
    /\ horiz_step \in 0..MaxHorizStep
    /\ current_pos = 0
    /\ current_logical_vert_pos = 0
    /\ d03_pc = "call"
    /\ d03_yielded = <<>>
    /\ d03_positions = <<>>

D03Idle ==
    /\ area_tiles = <<>>
    /\ definition_width = 0
    /\ horiz_step = 0
    /\ current_pos = 0
    /\ current_logical_vert_pos = 0
    /\ d03_pc = "idle"
    /\ d03_yielded = <<>>
    /\ d03_positions = <<>>

\* The call of iter_slope_tiles: the two `ensure!`s, then the iterator.
IterSlopeTiles ==
    /\ d03_pc = "call"
    /\ d03_pc' =
         IF ~(horiz_step < definition_width)
         THEN "failed"
         ELSE IF ~(1 < Len(area_tiles) \div definition_width)
              THEN "failed"
              ELSE "iterating"
    /\ UNCHANGED <<area_tiles, definition_width, horiz_step, current_pos,
                   current_logical_vert_pos, d03_yielded, d03_positions>>
    /\ OnlyD03

\* One call of the closure handed to std::iter::from_fn; part_1's
\* filter(..).count() stops calling it at the first None.
SlopeTilesNext ==
    /\ d03_pc = "iterating"
    /\ LET new_pos == NewPos(current_pos, current_logical_vert_pos,
                             horiz_step, definition_width)
       IN  IF InBounds(area_tiles, new_pos)
           THEN /\ current_pos' = new_pos
                /\ current_logical_vert_pos' = current_logical_vert_pos + 1
                /\ d03_yielded' = Append(d03_yielded, At(area_tiles, new_pos))
                /\ d03_positions' = Append(d03_positions, new_pos)
                /\ UNCHANGED d03_pc
           ELSE /\ d03_pc' = "exhausted"
                /\ UNCHANGED <<current_pos, current_logical_vert_pos,
                               d03_yielded, d03_positions>>
    /\ UNCHANGED <<area_tiles, definition_width, horiz_step>>
    /\ OnlyD03

NextD03 == IterSlopeTiles \/ SlopeTilesNext

(***************************************************************************)
(*                               DAY 5                                     *)
(***************************************************************************)

\* Most characters of a sample string replaced by another character.
MaxWrongChars == 1

TENTH_BIT_SET == 512

THREE_RIGHTMOST_BITS == 7

U16Max == 65535

\* The characters drawn; "U+00E9" stands for a character of two bytes.
CharsDrawn == {"F", "B", "L", "R", "X", "U+00E9"}

ByteLen(c) == IF c = "U+00E9" THEN 2 ELSE 1

\* str::len: the number of bytes.
RECURSIVE StrLen(_)
StrLen(s) == IF s = <<>> THEN 0 ELSE ByteLen(Head(s)) + StrLen(Tail(s))

\* The strings of d05_p1_sample.
SampleStrings ==
    {<<"F", "B", "F", "B", "B", "F", "F", "R", "L", "R">>,
     <<"B", "F", "F", "F", "B", "B", "F", "R", "R", "R">>,
     <<"F", "F", "F", "B", "B", "B", "F", "R", "R", "R">>,
     <<"B", "B", "F", "F", "B", "B", "F", "R", "L", "L">>}

\* Every string of seven from {F, B} followed by three from {L, R}.
BoardingPasses ==
    {row \o column : <<row, column>> \in [1..7 -> {"F", "B"}] \X [1..3 -> {"L", "R"}]}

\* The strings of S with up to n characters replaced by drawn ones.
RECURSIVE WithWrongChars(_, _)
WithWrongChars(S, n) ==
    IF n = 0
    THEN S
    ELSE WithWrongChars(
             S \cup {[s EXCEPT ![k] = c] : s \in S, k \in 1..10, c \in CharsDrawn},
             n - 1)

\* The sample strings with up to MaxWrongChars characters replaced, with
\* the last character dropped, and with one more character.
DamagedSamples ==
    LET replaced == WithWrongChars(SampleStrings, MaxWrongChars)
    IN  replaced
          \cup {SubSeq(t, 1, 9) : t \in replaced}
          \cup {Append(t, c) : t \in replaced, c \in CharsDrawn}

\* x >> n on unsigned integers.
ShiftRight(x, n) == x \div Pow2(n)

\* a | b and a & b on unsigned integers, bit by bit.
RECURSIVE BitOr(_, _)
BitOr(a, b) ==
    IF a = 0 THEN b
    ELSE IF b = 0 THEN a
    ELSE (IF a % 2 = 1 \/ b % 2 = 1 THEN 1 ELSE 0) + 2 * BitOr(a \div 2, b \div 2)

RECURSIVE BitAnd(_, _)
BitAnd(a, b) ==
    IF a = 0 \/ b = 0 THEN 0
    ELSE (IF a % 2 = 1 /\ b % 2 = 1 THEN 1 ELSE 0) + 2 * BitAnd(a \div 2, b \div 2)

\* !x on a u16.
BitNot16(x) == U16Max - x

\* The bit of from_str that character `count` sets.
SeatBitFromNinth(count) == ShiftRight(TENTH_BIT_SET \div 2, count)

SeatBit(count) == ShiftRight(TENTH_BIT_SET, count)

\* The two `for` loops of SeatId::from_str from character `count` on: the
\* first seven characters are matched against F / B, the next three against
\* L / R, and a string with fewer characters ends the loops early.
RECURSIVE SeatFrom(_, _, _)
SeatFrom(s, count, seat) ==
    IF count >= 10 \/ count >= Len(s)
    THEN Ok(seat)
    ELSE LET c == At(s, count)
             zero == IF count < 7 THEN "F" ELSE "L"
             one == IF count < 7 THEN "B" ELSE "R"
         IN  IF c = zero
             THEN SeatFrom(s, count + 1, BitOr(seat, 0))
             ELSE IF c = one
                  THEN SeatFrom(s, count + 1, BitOr(seat, SeatBit(count)))
                  ELSE Err(IF count < 7 THEN "expected 'F' or 'B'"
                                        ELSE "expected 'L' or 'R'")

\* impl FromStr for SeatId
SeatIdFromStr(s) ==
    IF StrLen(s) # 10
    THEN Err("expected 10 bytes of input")
    ELSE SeatFrom(s, 0, 0)

\* SeatId::row_and_seat
RowAndSeat(s) ==
    <<ShiftRight(BitAnd(s, BitNot16(THREE_RIGHTMOST_BITS)), 3),
      BitAnd(s, THREE_RIGHTMOST_BITS)>>

D05Init ==
    /\ d05_s \in BoardingPasses \cup DamagedSamples
    /\ d05_seat_id = NoResult
    /\ d05_row_and_seat = NoResult

D05Idle ==
    /\ d05_s = <<>>
    /\ d05_seat_id = NoResult
    /\ d05_row_and_seat = NoResult

\* s.parse::<SeatId>()
D05FromStr ==
    /\ d05_s # <<>>
    /\ d05_seat_id = NoResult
    /\ d05_seat_id' = SeatIdFromStr(d05_s)
    /\ UNCHANGED <<d05_s, d05_row_and_seat>>
    /\ OnlyD05

\* seat_id.row_and_seat()
D05RowAndSeat ==
    /\ d05_seat_id.kind = "Ok"
    /\ d05_row_and_seat = NoResult
    /\ d05_row_and_seat' = Ok(RowAndSeat(d05_seat_id.value))
    /\ UNCHANGED <<d05_s, d05_seat_id>>
    /\ OnlyD05

NextD05 == D05FromStr \/ D05RowAndSeat

(***************************************************************************)
(*                               DAY 2                                     *)
(***************************************************************************)

\* Most lines of an input.
MaxInputLines == 2

\* Largest position of a policy validate is called on directly.
MaxPosition == 4

\* Longest password validate is called on directly.
MaxPasswordLen == 3

U8Max == 255

DigitSeq == <<"0", "1", "2", "3", "4", "5", "6", "7", "8", "9">>

DigitChars == {DigitSeq[k] : k \in 1..Len(DigitSeq)}

DigitValue(c) == (CHOOSE k \in 1..Len(DigitSeq) : DigitSeq[k] = c) - 1

PolicyCharsDrawn == {"a", "b"}

\* The texts drawn for <lower> and <upper>.
NumberTextsDrawn == {<<"0">>, <<"1">>, <<"2">>, <<"2", "5", "6">>}

PasswordsDrawn == {<<>>, <<"a">>, <<"b", "a">>}

\* The lines of SAMPLE.
SampleLines ==
    {<<"1", "-", "3", " ", "a", ":", " ", "a", "b", "c", "d", "e">>,
     <<"1", "-", "3", " ", "b", ":", " ", "c", "d", "e", "f", "g">>,
     <<"2", "-", "9", " ", "c", ":", " ", "c", "c", "c", "c", "c", "c", "c", "c", "c">>}

\* Lines written as <lower>-<upper> <char>: <password>.
WrittenLines ==
    {lower \o <<"-">> \o upper \o <<" ", character, ":", " ">> \o password :
        lower \in NumberTextsDrawn, upper \in NumberTextsDrawn,
        character \in PolicyCharsDrawn, password \in PasswordsDrawn}

\* The lines of SAMPLE with one of their first eight characters dropped.
DamagedLines ==
    {SubSeq(l, 1, k - 1) \o SubSeq(l, k + 1, Len(l)) : l \in SampleLines, k \in 1..8}

LinesDrawn == {<<>>} \cup SampleLines \cup WrittenLines \cup DamagedLines

\* The number of characters of [0-9]+ matched from 0-based index i on.
RECURSIVE DigitsFrom(_, _)
DigitsFrom(s, i) ==
    IF i < Len(s) /\ At(s, i) \in DigitChars THEN 1 + DigitsFrom(s, i + 1) ELSE 0

\* The regex ^(?P<lower>[0-9]+)-(?P<upper>[0-9]+) (?P<character>.): (?P<password>.*)$
\* : the captures, or None.
RegexCaptures(s) ==
    LET n1 == DigitsFrom(s, 0)
        n2 == DigitsFrom(s, n1 + 1)
        c == n1 + 1 + n2 + 1
    IN  IF /\ n1 >= 1
           /\ n1 < Len(s) /\ At(s, n1) = "-"
           /\ n2 >= 1
           /\ c + 2 < Len(s)
           /\ At(s, c - 1) = " "
           /\ At(s, c + 1) = ":"
           /\ At(s, c + 2) = " "
        THEN Some([lower |-> SubSeq(s, 1, n1),
                   upper |-> SubSeq(s, n1 + 2, n1 + 1 + n2),
                   character |-> At(s, c),
                   password |-> SubSeq(s, c + 4, Len(s))])
        ELSE None

\* str::parse::<u8> of a string of digits.
RECURSIVE ParseU8From(_, _)
ParseU8From(digits, acc) ==
    IF digits = <<>>
    THEN Ok(acc)
    ELSE LET next == acc * 10 + DigitValue(Head(digits))
         IN  IF next > U8Max
             THEN Err("number too large to fit in target type")
             ELSE ParseU8From(Tail(digits), next)

ParseU8(digits) == ParseU8From(digits, 0)

\* MisrememberedPasswordPolicy::from_raw
MisrememberedFromRaw(lower, upper, character) ==
    Ok([range |-> <<lower, upper>>, character |-> character])

\* ActualPasswordPolicy::from_raw
ActualFromRaw(lower, upper, character) ==
    IF lower = 0
    THEN Err("received position 0 for 1-based character first index")
    ELSE IF upper = 0
         THEN Err("received position 0 for 1-based character second index")
         ELSE Ok([positions |-> <<lower, upper>>, character |-> character])

FromRaw(policy, lower, upper, character) ==
    IF policy = "MisrememberedPasswordPolicy"
    THEN MisrememberedFromRaw(lower, upper, character)
    ELSE ActualFromRaw(lower, upper, character)

\* parse_policy_password_pair::<T>
ParsePolicyPasswordPair(policy, s) ==
    LET captures == RegexCaptures(s)
    IN  IF ~captures.some
        THEN Err("failed to parse raw policy password pair")
        ELSE LET lower == ParseU8(captures.v.lower)
                 upper == ParseU8(captures.v.upper)
             IN  IF lower.kind # "Ok" \/ upper.kind # "Ok"
                 THEN Err("failed to parse raw policy password pair")
                 ELSE LET concrete_policy ==
                              FromRaw(policy, lower.value, upper.value, captures.v.character)
                      IN  IF concrete_policy.kind # "Ok"
                          THEN Err("parse succeeded, but conversion to concrete policy failed")
                          ELSE Ok(<<concrete_policy.value, captures.v.password>>)

\* MisrememberedPasswordPolicy::validate
MisrememberedValidate(pol, password) ==
    LET count == Cardinality({k \in 1..Len(password) : password[k] = pol.character})
    IN  IF count > U8Max
        THEN Panic("number of matching password policy characters is greater than representable by u8")
        ELSE Ok(pol.range[1] <= count /\ count <= pol.range[2])

\* ActualPasswordPolicy::validate
ActualValidate(pol, password) ==
    Ok(Cardinality({idx \in 1..Len(password) :
                       /\ \E p \in 1..2 : pol.positions[p] = idx
                       /\ password[idx] = pol.character}) = 1)

Validate(policy, pol, password) ==
    IF policy = "MisrememberedPasswordPolicy"
    THEN MisrememberedValidate(pol, password)
    ELSE ActualValidate(pol, password)

\* parse_password_policy_lines::<T>(s).filter_map(|res| res.ok())
\*     .filter(|(pol, pw)| pol.validate(&pw)).count()
RECURSIVE CountValid(_, _, _)
CountValid(policy, lines, count) ==
    IF lines = <<>>
    THEN Ok(count)
    ELSE LET l == Head(lines)
             res == ParsePolicyPasswordPair(policy, l)
         IN  IF l = <<>> \/ res.kind # "Ok"
             THEN CountValid(policy, Tail(lines), count)
             ELSE LET valid == Validate(policy, res.value[1], res.value[2])
                  IN  IF valid.kind # "Ok"
                      THEN valid
                      ELSE CountValid(policy, Tail(lines),
                                      IF valid.value THEN count + 1 ELSE count)

Part1D02(lines) == CountValid("MisrememberedPasswordPolicy", lines, 0)

Part2D02(lines) == CountValid("ActualPasswordPolicy", lines, 0)

NoPolicy == [positions |-> <<1, 1>>, character |-> "a"]

D02Init ==
    /\ d02_result = NoResult
    /\ \/ /\ d02_entry \in {"part_1", "part_2"}
          /\ d02_lines \in SeqsUpTo(LinesDrawn, MaxInputLines)
          /\ d02_policy = NoPolicy
          /\ d02_password = <<>>
       \/ /\ d02_entry = "validate"
          /\ d02_lines = <<>>
          /\ d02_policy \in [positions : (1..MaxPosition) \X (1..MaxPosition),
                             character : PolicyCharsDrawn]
          /\ d02_password \in SeqsUpTo(PolicyCharsDrawn, MaxPasswordLen)

D02Idle ==
    /\ d02_entry = "idle"
    /\ d02_lines = <<>>
    /\ d02_policy = NoPolicy
    /\ d02_password = <<>>
    /\ d02_result = NoResult

\* part_1(s)
D02Part1 ==
    /\ d02_entry = "part_1"
    /\ d02_result = NoResult
    /\ d02_result' = Part1D02(d02_lines)
    /\ UNCHANGED <<d02_entry, d02_lines, d02_policy, d02_password>>
    /\ OnlyD02

\* part_2(s)
D02Part2 ==
    /\ d02_entry = "part_2"
    /\ d02_result = NoResult
    /\ d02_result' = Part2D02(d02_lines)
    /\ UNCHANGED <<d02_entry, d02_lines, d02_policy, d02_password>>
    /\ OnlyD02

\* pol.validate(&pw) on an ActualPasswordPolicy
D02Validate ==
    /\ d02_entry = "validate"
    /\ d02_result = NoResult
    /\ d02_result' = ActualValidate(d02_policy, d02_password)
    /\ UNCHANGED <<d02_entry, d02_lines, d02_policy, d02_password>>
    /\ OnlyD02

NextD02 == D02Part1 \/ D02Part2 \/ D02Validate

(***************************************************************************)
(*                           SPECIFICATIONS                                *)
(***************************************************************************)

InitD08 == D08Init /\ D11Idle /\ D10Idle /\ D12Idle /\ D01Idle /\
           D13Idle /\ D09Idle /\ D07Idle /\ D03Idle /\ D05Idle /\
           D02Idle

SpecD08 == InitD08 /\ [][NextD08]_vars

InitD11 == D11Init /\ D08Idle /\ D10Idle /\ D12Idle /\ D01Idle /\
           D13Idle /\ D09Idle /\ D07Idle /\ D03Idle /\ D05Idle /\
           D02Idle

SpecD11 == InitD11 /\ [][NextD11]_vars

InitD10 == D10Init /\ D08Idle /\ D11Idle /\ D12Idle /\ D01Idle /\
           D13Idle /\ D09Idle /\ D07Idle /\ D03Idle /\ D05Idle /\
           D02Idle

SpecD10 == InitD10 /\ [][NextD10]_vars

InitD12 == D12Init /\ D08Idle /\ D11Idle /\ D10Idle /\ D01Idle /\
           D13Idle /\ D09Idle /\ D07Idle /\ D03Idle /\ D05Idle /\
           D02Idle

SpecD12 == InitD12 /\ [][NextD12]_vars

InitD01 == D01Init /\ D08Idle /\ D11Idle /\ D10Idle /\ D12Idle /\
           D13Idle /\ D09Idle /\ D07Idle /\ D03Idle /\ D05Idle /\
           D02Idle

SpecD01 == InitD01 /\ [][NextD01]_vars

InitD13 == D13Init /\ D08Idle /\ D11Idle /\ D10Idle /\ D12Idle /\
           D01Idle /\ D09Idle /\ D07Idle /\ D03Idle /\ D05Idle /\
           D02Idle

SpecD13 == InitD13 /\ [][NextD13]_vars

InitD09 == D09Init /\ D08Idle /\ D11Idle /\ D10Idle /\ D12Idle /\
           D01Idle /\ D13Idle /\ D07Idle /\ D03Idle /\ D05Idle /\
           D02Idle

SpecD09 == InitD09 /\ [][NextD09]_vars

InitD07 == D07Init /\ D08Idle /\ D11Idle /\ D10Idle /\ D12Idle /\
           D01Idle /\ D13Idle /\ D09Idle /\ D03Idle /\ D05Idle /\
           D02Idle

SpecD07 == InitD07 /\ [][NextD07]_vars

InitD03 == D03Init /\ D08Idle /\ D11Idle /\ D10Idle /\ D12Idle /\
           D01Idle /\ D13Idle /\ D09Idle /\ D07Idle /\ D05Idle /\
           D02Idle

SpecD03 == InitD03 /\ [][NextD03]_vars

InitD05 == D05Init /\ D08Idle /\ D11Idle /\ D10Idle /\ D12Idle /\
           D01Idle /\ D13Idle /\ D09Idle /\ D07Idle /\ D03Idle /\
           D02Idle

SpecD05 == InitD05 /\ [][NextD05]_vars

InitD02 == D02Init /\ D08Idle /\ D11Idle /\ D10Idle /\ D12Idle /\
           D01Idle /\ D13Idle /\ D09Idle /\ D07Idle /\ D03Idle /\
           D05Idle

SpecD02 == InitD02 /\ [][NextD02]_vars

(***************************************************************************)
(*                          CLAIMS: DAY 8                                  *)
(***************************************************************************)

\* ---- reference semantics of a run, independent of the visited set ----

\* The emulator states of a run from zeroed(): the state before each of the
\* first n instructions and the state after the last one; the run is cut
\* after a failing instruction (whose entry has ok = FALSE).
RECURSIVE EmuTrace(_, _)
EmuTrace(instrs, n) ==
    IF n = 0
    THEN << [ok |-> TRUE, instruction_counter |-> 0, accumulator |-> 0] >>
    ELSE LET t == EmuTrace(instrs, n - 1)
             last == t[Len(t)]
         IN  IF ~last.ok
             THEN t
             ELSE Append(t, ExecuteSingleInstruction(last.instruction_counter,
                                last.accumulator, instrs))

SetMin(S) == CHOOSE x \in S : \A y \in S : x <= y

NoDuplicates(s) == \A i, j \in 1..Len(s) : i # j => s[i] # s[j]

\* Positions k of the trace whose counter was already the counter of an
\* earlier position: the instruction there would run a second time.
Revisits(t) ==
    {k \in 2..Len(t) :
        t[k].ok /\ \E j \in 1..(k - 1) :
                       t[j].instruction_counter = t[k].instruction_counter}

\* Positions of the trace where the run has ended normally: the counter is
\* exactly one past the last instruction.
Ends(t, instrs) ==
    {k \in 1..Len(t) : t[k].ok /\ t[k].instruction_counter = Len(instrs)}

Flipped(instrs, i) ==
    WithOperation(instrs, i, Changed(At(instrs, i).operation))

\* The flips (of a jmp or a nop) after which the program terminates.
Fixes(instrs) ==
    {i \in 0..(Len(instrs) - 1) :
        /\ At(instrs, i).operation # "Accumulate"
        /\ Ends(EmuTrace(Flipped(instrs, i), Len(instrs)), instrs) # {}}

\* C1: when the run of the program from counter 0 and accumulator 0 comes
\* back to an instruction index it already visited, part_1 returns the
\* accumulator held just before an instruction would run a second time, and
\* at no moment of part_1 has an instruction been executed twice.
C1_Part1CycleDetection ==
    d08_part = "part_1" =>
        /\ NoDuplicates(d08_executed)
        /\ d08_pc = "returned" =>
             LET t == EmuTrace(instructions, Len(instructions))
             IN  Revisits(t) # {} =>
                   LET k == SetMin(Revisits(t))
                   IN  /\ d08_result = Ok(t[k].accumulator)
                       /\ d08_executed =
                            [j \in 1..(k - 1) |-> t[j].instruction_counter]

\* C1 witness: part_1 has returned from a loop of at least two instructions
\* that changed the accumulator.
C1_Witness ==
    /\ d08_part = "part_1"
    /\ d08_pc = "returned"
    /\ d08_result.kind = "Ok"
    /\ d08_result.value # 0
    /\ Len(d08_executed) >= 2
    /\ Revisits(EmuTrace(instructions, Len(instructions))) # {}

\* C2: whenever flipping one jmp to nop or one nop to jmp makes the program
\* terminate with the counter exactly one past the last instruction, part_2
\* returns the accumulator of that terminating run, for the lowest-index
\* such flip.
C2_Part2MutationSearch ==
    (d08_part = "part_2" /\ d08_pc = "returned" /\ Fixes(instructions) # {}) =>
        LET i == SetMin(Fixes(instructions))
            t == EmuTrace(Flipped(instructions, i), Len(instructions))
        IN  d08_result = Ok(t[SetMin(Ends(t, instructions))].accumulator)

\* A step of part_1 or part_2 that calls execute_single_instruction on a
\* counter inside the program.
ExecutesInstruction ==
    /\ d08_pc = "run"
    /\ instruction_counter \notin previously_seen_inst_counters
    /\ InBounds(instructions, instruction_counter)

\* C21: execute_single_instruction on a counter inside the program: acc
\* adds its argument to the accumulator and advances the counter by 1; jmp
\* adds its signed argument to the counter (where that sum is a counter, not
\* below 0) and leaves the accumulator unchanged; nop advances the counter
\* by 1 and leaves the accumulator unchanged; the instruction list is not
\* modified by a call that returns.
C21_ExecuteSingleInstruction ==
    [][ExecutesInstruction =>
          LET instruction == At(instructions, instruction_counter)
              argument == instruction.argument
          IN  /\ instruction.operation = "Accumulate" =>
                    /\ accumulator' = accumulator + argument
                    /\ instruction_counter' = instruction_counter + 1
                    /\ instructions' = instructions
              /\ (instruction.operation = "Jump"
                      /\ instruction_counter + argument >= 0) =>
                    /\ instruction_counter' = instruction_counter + argument
                    /\ accumulator' = accumulator
                    /\ instructions' = instructions
              /\ instruction.operation = "NoOp" =>
                    /\ instruction_counter' = instruction_counter + 1
                    /\ accumulator' = accumulator
                    /\ instructions' = instructions]_vars

(***************************************************************************)
(*                          CLAIMS: DAY 11                                 *)
(***************************************************************************)

\* ---- the grid by rows and columns, independent of the offset windows ----

Abs(n) == IF n < 0 THEN 0 - n ELSE n

GridHeight(map) == Len(map.tiles) \div map.map_width

InGrid(map, r, c) ==
    r >= 0 /\ r < GridHeight(map) /\ c >= 0 /\ c < map.map_width

TileAtRC(map, r, c) == map.tiles[r * map.map_width + c + 1]

RowOf(map, o) == o \div map.map_width

ColOf(map, o) == o % map.map_width

Offsets(map) == 0..(Len(map.tiles) - 1)

\* The up-to-8 in-grid tiles whose row and column are each within 1.
Adjacent(map, o) ==
    {p \in Offsets(map) :
        /\ p # o
        /\ Abs(RowOf(map, p) - RowOf(map, o)) <= 1
        /\ Abs(ColOf(map, p) - ColOf(map, o)) <= 1}

OccupiedAdjacent(map, o) ==
    Cardinality({p \in Adjacent(map, o) : At(map.tiles, p) = OCCUPIED_SEAT})

\* Distances at which a seat lies from o in direction (dr, dc).
SeatDistances(map, o, dr, dc) ==
    {k \in 1..(GridHeight(map) + map.map_width) :
        /\ InGrid(map, RowOf(map, o) + k * dr, ColOf(map, o) + k * dc)
        /\ TileAtRC(map, RowOf(map, o) + k * dr, ColOf(map, o) + k * dc)
              # FLOOR}

\* The occupancy of the first seat from o in direction (dr, dc), as a
\* sequence of no or one boolean.
FirstSeatAlong(map, o, dr, dc) ==
    IF SeatDistances(map, o, dr, dc) = {}
    THEN <<>>
    ELSE LET k == SetMin(SeatDistances(map, o, dr, dc))
         IN  << TileAtRC(map, RowOf(map, o) + k * dr, ColOf(map, o) + k * dc)
                  = OCCUPIED_SEAT >>

EightDirections == (({-1, 0, 1} \X {-1, 0, 1}) \ {<<0, 0>>})

VisibleOccupied(map, o) ==
    Cardinality({d \in EightDirections :
                    FirstSeatAlong(map, o, d[1], d[2]) = <<TRUE>>})

OpDelta(op) ==
    CASE op = "Stay" -> 0 [] op = "PlusOne" -> 1 [] op = "NegOne" -> -1

\* C3: next_step returns None exactly when applying the occupant behaviour
\* to the current map changes no tile, and then current_state() is the map
\* of before the call; otherwise it returns Some(new map), the new map is
\* current_state(), and it differs from the previous map in at least one
\* seat.
C3_NextStepFixedPoint ==
    d11_returned # NoResult =>
        LET applied == [i \in 1..Len(d11_prev_state.tiles) |->
                           NextTile(occupant_behavior, d11_prev_state, i - 1)]
        IN  /\ d11_returned.kind \in {"None", "Some"}
            /\ (d11_returned.kind = "None")
                  <=> (applied = d11_prev_state.tiles)
            /\ d11_returned.kind = "None" => CurrentState = d11_prev_state
            /\ d11_returned.kind = "Some" =>
                 /\ d11_returned.map = CurrentState
                 /\ CurrentState =
                      [tiles |-> applied,
                       map_width |-> d11_prev_state.map_width]
                 /\ \E o \in Offsets(d11_prev_state) :
                       /\ At(d11_prev_state.tiles, o) # FLOOR
                       /\ At(CurrentState.tiles, o)
                             # At(d11_prev_state.tiles, o)

\* C3 witness: next_step has returned a new map into the first buffer, so
\* the simulation has stepped at least twice.
C3_Witness ==
    /\ d11_returned # NoResult
    /\ d11_returned.kind = "Some"
    /\ curr_map_idx = 0
    /\ \E o \in Offsets(d11_prev_state) :
          /\ At(d11_prev_state.tiles, o) = OCCUPIED_SEAT
          /\ At(CurrentState.tiles, o) = UNOCCUPIED_SEAT

\* C3 witness of the other return value: None, after a step that changed
\* the map.
C3_WitnessNone ==
    /\ d11_returned # NoResult
    /\ d11_returned.kind = "None"
    /\ curr_map_idx = 1

\* One step from map `before` to map `after`, every tile decided from
\* `before` alone: an empty seat is taken iff it counts no occupied seat, an
\* occupied seat is left iff it counts at least `tolerance` of them, every
\* other tile keeps its value.
SimultaneousStep(before, after, Count(_, _), tolerance) ==
    /\ after.map_width = before.map_width
    /\ Len(after.tiles) = Len(before.tiles)
    /\ \A o \in Offsets(before) :
          LET was == At(before.tiles, o)
              is == At(after.tiles, o)
          IN  CASE was = UNOCCUPIED_SEAT ->
                     is = IF Count(before, o) = 0
                          THEN OCCUPIED_SEAT ELSE UNOCCUPIED_SEAT
                [] was = OCCUPIED_SEAT ->
                     is = IF Count(before, o) >= tolerance
                          THEN UNOCCUPIED_SEAT ELSE OCCUPIED_SEAT
                [] OTHER -> is = was

\* C4: with Part1OccupantBehavior one next_step updates all tiles at once
\* from the previous map: an empty seat becomes occupied iff none of its
\* up-to-8 adjacent in-grid tiles (no wrap-around across row ends) is an
\* occupied seat, an occupied seat becomes empty iff at least 4 of them
\* are, every other tile keeps its value.
C4_Part1Rule ==
    (occupant_behavior = "Part1OccupantBehavior" /\ d11_returned # NoResult)
        => SimultaneousStep(d11_prev_state, CurrentState, OccupiedAdjacent, 4)

\* C4 witness: a step of part 1 in which a seat with at least 4 occupied
\* neighbours was left, on a map of more than one row and column.
C4_Witness ==
    /\ occupant_behavior = "Part1OccupantBehavior"
    /\ d11_returned # NoResult
    /\ d11_prev_state.map_width > 1
    /\ \E o \in Offsets(d11_prev_state) :
          /\ At(d11_prev_state.tiles, o) = OCCUPIED_SEAT
          /\ At(CurrentState.tiles, o) = UNOCCUPIED_SEAT
          /\ OccupiedAdjacent(d11_prev_state, o) >= 4

\* C5: get_visible_seats(offset) yields, for each of the 8 directions, the
\* occupancy of the first seat met along it (floor is skipped, a direction
\* without a seat yields nothing), and with Part2OccupantBehavior one
\* next_step makes an empty seat occupied iff no visible seat is occupied
\* and an occupied seat empty iff at least 5 visible seats are occupied,
\* all tiles at once from the previous map.
C5_Part2Rule ==
    (occupant_behavior = "Part2OccupantBehavior" /\ d11_returned # NoResult)
        => /\ \A o \in Offsets(d11_prev_state) :
                 LET Along(d) ==
                         FirstSeatAlong(d11_prev_state, o,
                                        OpDelta(VisibleDirections[d][2]),
                                        OpDelta(VisibleDirections[d][1]))
                 IN  GetVisibleSeats(d11_prev_state, o) =
                        Along(1) \o Along(2) \o Along(3) \o Along(4)
                          \o Along(5) \o Along(6) \o Along(7) \o Along(8)
           /\ SimultaneousStep(d11_prev_state, CurrentState,
                               VisibleOccupied, 5)

\* C5 witness: a step of part 2 in which a seat was left that saw at least
\* 5 occupied seats, one of them behind a floor tile.
C5_Witness ==
    /\ occupant_behavior = "Part2OccupantBehavior"
    /\ d11_returned # NoResult
    /\ \E o \in Offsets(d11_prev_state) :
          /\ At(d11_prev_state.tiles, o) = OCCUPIED_SEAT
          /\ At(CurrentState.tiles, o) = UNOCCUPIED_SEAT
          /\ VisibleOccupied(d11_prev_state, o) >= 5
          /\ \E d \in EightDirections :
                /\ FirstSeatAlong(d11_prev_state, o, d[1], d[2]) = <<TRUE>>
                /\ SetMin(SeatDistances(d11_prev_state, o, d[1], d[2])) >= 2

\* Most tiles of a map whose iteration is followed to its end.
MaxFairTiles == 6

\* The loop `while simulation.next_step(&mut b).is_some() {}` of
\* num_seats_with_behavior calls next_step again as long as it has not
\* returned None.
InitD11Fair == InitD11 /\ Len(CurrentState.tiles) <= MaxFairTiles

SpecD11Fair == InitD11Fair /\ [][NextD11]_vars /\ WF_vars(NextStep)

Ratings(set) == {set[k] : k \in 2..Len(set)}

SetMax(S) == CHOOSE x \in S : \A y \in S : y <= x

\* A set of adapters forms a chain from joltage 0 when every step of it, in
\* ascending order and starting from 0, is between 1 and 3 jolts.
IsChain(T) ==
    LET chain == SortedSeq(T \cup {0})
    IN  \A k \in 1..(Len(chain) - 1) : (chain[k + 1] - chain[k]) \in 1..3

\* The subsets of the adapters that form a chain from 0 to the highest one.
ValidArrangements(S) ==
    {T \in SUBSET S : SetMax(S) \in T /\ IsChain(T)}

\* How many consecutive differences of the sorted vector equal d.
DiffsEqual(set, d) ==
    Cardinality({k \in 1..(Len(set) - 1) : set[k + 1] - set[k] = d})

\* C6: num_valid_variants (part_2) returns, for a set of distinct adapter
\* ratings, the number of distinct subsets of the adapters that form a chain
\* from joltage 0 to the highest adapter with every step between 1 and 3
\* jolts.  Stated here for the bags whose adapters all connect, the inputs
\* of the puzzle.
C6_NumValidVariantsCountsChains ==
    (d10_p2 # NoResult /\ IsChain(Ratings(adapters))) =>
        d10_p2 = Ok(Cardinality(ValidArrangements(Ratings(adapters))))

DeltaOf(d) ==
    CASE d = "North" -> <<0, 1>> [] d = "East" -> <<1, 0>>
      [] d = "South" -> <<0, -1>> [] d = "West" -> <<-1, 0>>

Compass == <<"North", "East", "South", "West">>

CompassIdx(d) == CHOOSE i \in 1..4 : Compass[i] = d

\* The number of clockwise quarter turns a turn instruction stands for.
QuartersClockwise(inst) ==
    LET q == CASE inst.degrees = "Ninety" -> 1
               [] inst.degrees = "OneEighty" -> 2
               [] inst.degrees = "TwoSeventy" -> 3
    IN  IF inst.direction = "Right" THEN q ELSE 4 - q

RotatedCardinal(d, q) == Compass[((CompassIdx(d) - 1 + q) % 4) + 1]

\* q clockwise quarter turns of a vector: one of them maps (x, y) to
\* (y, -x).
RECURSIVE RotatedPair(_, _)
RotatedPair(p, q) ==
    IF q = 0 THEN p ELSE RotatedPair(<<p[2], 0 - p[1]>>, q - 1)

Plus(p, n, v) == <<p[1] + n * v[1], p[2] + n * v[2]>>

Representable(n) == n >= I64Min /\ n <= I64Max

RepresentablePair(p) == Representable(p[1]) /\ Representable(p[2])

\* The direction a move of the ship goes: the compass direction named, the
\* current orientation (F) or its opposite (B).
ShipHeading(inst, facing) ==
    CASE inst.direction = "Forward" -> facing
      [] inst.direction = "Backward" -> RotatedCardinal(facing, 2)
      [] OTHER -> inst.direction

\* Where the claim of C8 puts the ship after `inst`.
ShipAfter(inst, pos, facing) ==
    IF inst.kind = "Move"
    THEN [position |-> Plus(pos, inst.units, DeltaOf(ShipHeading(inst, facing))),
          orientation |-> facing]
    ELSE [position |-> pos,
          orientation |-> RotatedCardinal(facing, QuartersClockwise(inst))]

\* C8 as claimed: from (0,0) facing East, N/E/S/W n moves the ship n units
\* in that direction, F n moves it n units in the current orientation and
\* B n in the opposite one, orientation unchanged; L/R by 90, 180 or 270
\* degrees changes only the orientation.
C8_ShipNavigateAsClaimed ==
    [][d12_navigatable = "Ship" =>
          [position |-> position', orientation |-> orientation']
             = ShipAfter(d12_inst', position, orientation)]_vars

\* C8 amended: the same, provided the coordinates of the new position are
\* representable as i64; otherwise navigate returns an error and leaves
\* position and orientation unchanged.
C8_ShipNavigate ==
    [][d12_navigatable = "Ship" =>
          LET after == ShipAfter(d12_inst', position, orientation)
          IN  IF RepresentablePair(after.position)
              THEN /\ d12_result'.kind = "Ok"
                   /\ position' = after.position
                   /\ orientation' = after.orientation
              ELSE /\ d12_result'.kind = "Err"
                   /\ UNCHANGED <<position, orientation>>]_vars

\* C8 witness: the ship, turned to face South, has moved forward off the
\* x axis.
C8_Witness ==
    /\ d12_navigatable = "Ship"
    /\ d12_result.kind = "Ok"
    /\ d12_inst.kind = "Move"
    /\ d12_inst.direction = "Forward"
    /\ orientation = "South"
    /\ position[2] < 0

\* Where the claim of C9 puts ship and waypoint after `inst`; B is not
\* part of the claim.
SystemAfter(inst, ship, wp) ==
    CASE inst.kind = "Turn" ->
           [ship_position |-> ship,
            waypoint |-> RotatedPair(wp, QuartersClockwise(inst))]
      [] inst.kind = "Move" /\ inst.direction \in CardinalDirection ->
           [ship_position |-> ship,
            waypoint |-> Plus(wp, inst.units, DeltaOf(inst.direction))]
      [] inst.kind = "Move" /\ inst.direction = "Forward" ->
           [ship_position |-> Plus(ship, inst.units, wp), waypoint |-> wp]

InClaimC9(inst) == inst.kind = "Turn" \/ inst.direction # "Backward"

\* C9 as claimed: from ship (0,0) and waypoint (10,1), N/E/S/W n moves only
\* the waypoint, F n adds n times the waypoint vector to the ship position
\* and leaves the waypoint, L/R rotates the waypoint about the ship (R90
\* maps (x,y) to (y,-x), L90 to (-y,x), 180 to (-x,-y)) and leaves the
\* ship position.
C9_SystemNavigateAsClaimed ==
    [][(d12_navigatable = "NavigationSystem" /\ InClaimC9(d12_inst')) =>
          [ship_position |-> ship_position', waypoint |-> waypoint']
             = SystemAfter(d12_inst', ship_position, waypoint)]_vars

\* C9 amended: the same, provided every coordinate of the result, and for
\* F n every product of n and a waypoint coordinate, is representable as
\* i64; otherwise navigate returns an error and leaves ship position and
\* waypoint unchanged.
C9_SystemNavigate ==
    [][(d12_navigatable = "NavigationSystem" /\ InClaimC9(d12_inst')) =>
          LET inst == d12_inst'
              after == SystemAfter(inst, ship_position, waypoint)
              fits == /\ RepresentablePair(after.ship_position)
                      /\ RepresentablePair(after.waypoint)
                      /\ (inst.kind = "Move" /\ inst.direction = "Forward")
                            => RepresentablePair(
                                   Plus(<<0, 0>>, inst.units, waypoint))
          IN  IF fits
              THEN /\ d12_result'.kind = "Ok"
                   /\ ship_position' = after.ship_position
                   /\ waypoint' = after.waypoint
              ELSE /\ d12_result'.kind = "Err"
                   /\ UNCHANGED <<ship_position, waypoint>>]_vars

\* C9 witness: the ship has moved forward to a waypoint that was moved and
\* then rotated.
C9_Witness ==
    /\ d12_navigatable = "NavigationSystem"
    /\ d12_result.kind = "Ok"
    /\ d12_inst.kind = "Move"
    /\ d12_inst.direction = "Forward"
    /\ d12_navigated >= 3
    /\ waypoint = <<4, -10>>
    /\ ship_position = <<4, -10>>

(***************************************************************************)
(*                          CLAIMS: DAY 1                                  *)
(***************************************************************************)

RECURSIVE SumOfValues(_, _)
SumOfValues(entries, k) ==
    IF k > Len(entries) THEN 0 ELSE entries[k][2] + SumOfValues(entries, k + 1)

RECURSIVE ProductOfValues(_, _)
ProductOfValues(entries, k) ==
    IF k = 0 THEN 1 ELSE ProductOfValues(entries, k - 1) * entries[k][2]

\* C10: whenever find_2020_sum_constituents(input, n) returns Some(answer),
\* the n returned entries sit at pairwise distinct, strictly increasing
\* positions of the input list, each returned value is the input value at
\* its position, the values sum to 2020, and product is the product of the
\* n values.
C10_AnswerIsACombination ==
    (d01_pc = "returned" /\ d01_result.value.some) =>
        LET answer == d01_result.value.v
            entries == answer.entries
        IN  /\ Len(entries) = num_entries
            /\ \A k \in 1..Len(entries) :
                  /\ InBounds(expense_report_entries, entries[k][1])
                  /\ entries[k][2] = At(expense_report_entries, entries[k][1])
            /\ \A k \in 1..(Len(entries) - 1) : entries[k][1] < entries[k + 1][1]
            /\ SumOfValues(entries, 1) = 2020
            /\ answer.sum = 2020
            /\ answer.product = ProductOfValues(entries, Len(entries))

(***************************************************************************)
(*                          CLAIMS: DAY 13                                 *)
(***************************************************************************)

\* The first departure of bus b at or after timestamp t: the least multiple
\* of b that is not below t.
FirstDepartureAtOrAfter(b, t) ==
    CHOOSE d \in t..(t + b) : d % b = 0 /\ \A o \in t..(d - 1) : o % b # 0

\* C11: with bus b departing at every multiple of b, soonest_bus is a bus
\* whose first departure at or after the timestamp initial_wait is the
\* earliest, and wait_after_initial is the number of minutes from
\* initial_wait to that departure.
C11_SoonestBus ==
    (d13_calc.kind = "Ok") =>
        LET calc == d13_calc.value
        IN  /\ \E i \in 1..Len(bus_ids) : bus_ids[i] = calc.soonest_bus
            /\ \A i \in 1..Len(bus_ids) :
                  FirstDepartureAtOrAfter(calc.soonest_bus, initial_wait)
                      <= FirstDepartureAtOrAfter(bus_ids[i], initial_wait)
            /\ calc.wait_after_initial =
                  FirstDepartureAtOrAfter(calc.soonest_bus, initial_wait)
                      - initial_wait

(***************************************************************************)
(*                          CLAIMS: DAY 9                                  *)
(***************************************************************************)

\* data[i] is the sum of two values at distinct positions among the
\* preamble_len values immediately preceding index i.
IsSumOfTwoBefore(i) ==
    \E a, b \in (i - preamble_len)..(i - 1) :
        a # b /\ At(data, a) + At(data, b) = At(data, i)

WeakIndices == {i \in preamble_len..(Len(data) - 1) : ~IsSumOfTwoBefore(i)}

\* C12: find_first_weakness returns the lowest index i >= preamble_len,
\* with its value, such that data[i] is not the sum of two values at
\* distinct positions among the preamble_len values immediately preceding
\* it, and None (an error of part_1) when every such index is such a sum.
C12_FindFirstWeakness ==
    (d09_p1 # NoResult) =>
        IF WeakIndices = {}
        THEN d09_p1.kind = "Err"
        ELSE /\ d09_p1.kind = "Ok"
             /\ d09_p1.value[1] \in WeakIndices
             /\ \A i \in WeakIndices : d09_p1.value[1] <= i
             /\ d09_p1.value[2] = At(data, d09_p1.value[1])

\* C12 witness: a weakness found past an index that is a sum drawn from a
\* window of more than two values.
C12_Witness ==
    /\ d09_p1 # NoResult
    /\ d09_p1.kind = "Ok"
    /\ preamble_len >= 3
    /\ d09_p1.value[1] > preamble_len
    /\ d09_p1.value[2] > 0

\* C12 second case: every index past the preamble is a sum.
C12_WitnessNone ==
    /\ d09_p1 # NoResult
    /\ d09_p1.kind = "Err"
    /\ Len(data) > preamble_len

RECURSIVE SumOfRun(_, _)
SumOfRun(s, e) == IF s > e THEN 0 ELSE At(data, s) + SumOfRun(s + 1, e)

\* The contiguous runs data[s ..= e] of at least two entries whose sum is w.
RunsSummingTo(w) ==
    {r \in (0..(Len(data) - 1)) \X (0..(Len(data) - 1)) :
        r[1] < r[2] /\ SumOfRun(r[1], r[2]) = w}

RunValues(r) == {At(data, k) : k \in r[1]..r[2]}

\* C13: part_2 returns (min, max, min + max) of the contiguous run of at
\* least two data entries whose sum equals the first weakness value, taking
\* a run with the lowest start index, and returns an error when no such run
\* exists.
C13_Part2ContiguousRun ==
    (d09_p2 # NoResult /\ WeakIndices # {}) =>
        LET first == CHOOSE i \in WeakIndices : \A o \in WeakIndices : i <= o
            runs == RunsSummingTo(At(data, first))
        IN  IF runs = {}
            THEN d09_p2.kind = "Err"
            ELSE /\ d09_p2.kind = "Ok"
                 /\ \E r \in runs :
                       /\ \A o \in runs : r[1] <= o[1]
                       /\ d09_p2.value = <<SetMin(RunValues(r)),
                                           SetMax(RunValues(r)),
                                           SetMin(RunValues(r))
                                               + SetMax(RunValues(r))>>

(***************************************************************************)
(*                          CLAIMS: DAY 7                                  *)
(***************************************************************************)

\* The colours with a rule line, and what the rule of a colour contains
\* (each colour has one line in an accepted input).
RuledColours == {rule_lines[k].color : k \in 1..Len(rule_lines)}

RuleOf(c) == (CHOOSE k \in 1..Len(rule_lines) : rule_lines[k].color = c)

InsideOf(c) == rule_lines[RuleOf(c)].bags_inside

\* c directly contains d.
ContainsEdge(c, d) == c \in RuledColours /\ d \in DOMAIN InsideOf(c)

\* The colours reachable from c through n or fewer contains-edges, n >= 1.
RECURSIVE ReachableWithin(_, _)
ReachableWithin(c, n) ==
    IF n = 0
    THEN {}
    ELSE LET direct == {d \in Colours : ContainsEdge(c, d)}
         IN  direct \cup UNION {ReachableWithin(d, n - 1) : d \in direct}

TransitivelyContains(c, d) == d \in ReachableWithin(c, Cardinality(Colours))

Accepted == ParseLuggageRules(rule_lines).kind = "Ok"

\* C14: part_1 returns the number of bag colours whose rule transitively
\* contains "shiny gold", i.e. from which shiny gold is reachable through
\* one or more contains-edges of the rule graph.
C14_Part1CountsContainers ==
    (d07_entry = "part_1" /\ d07_result # NoResult /\ Accepted) =>
        d07_result =
            Ok(Cardinality({c \in RuledColours :
                               TransitivelyContains(c, "shiny gold")}))

\* No colour at or below c contains itself, directly or not.
AcyclicBelow(c) ==
    \A d \in {c} \cup ReachableWithin(c, Cardinality(Colours)) :
        ~TransitivelyContains(d, d)

RECURSIVE SumOver(_, _)
SumOver(S, f) ==
    IF S = {}
    THEN 0
    ELSE LET x == CHOOSE y \in S : TRUE
         IN  f[x] + SumOver(S \ {x}, f)

\* The number of individual bags required inside one bag of colour c.
RECURSIVE BagsInside(_)
BagsInside(c) ==
    SumOver(DOMAIN InsideOf(c),
            [d \in DOMAIN InsideOf(c) |-> InsideOf(c)[d] * (1 + BagsInside(d))])

\* Where the required number is defined: the input is accepted, shiny gold
\* has a rule and nothing below it contains itself.
InClaimC15 ==
    /\ d07_entry = "part_2"
    /\ d07_result # NoResult
    /\ Accepted
    /\ "shiny gold" \in RuledColours
    /\ AcyclicBelow("shiny gold")

\* C15 as stated: part_2 returns the total number of individual bags
\* required inside one shiny gold bag, whatever that number is.
C15_Part2AsClaimed ==
    InClaimC15 => d07_result = Ok(BagsInside("shiny gold"))

\* C15: part_2 returns the total number of individual bags required inside
\* one shiny gold bag: the sum, over each colour directly contained, of
\* count times (1 + the total inside a bag of that colour), the outermost
\* bag not counted, provided that total plus one is representable as a
\* u32; otherwise part_2 panics.
C15_Part2CountsBagsInside ==
    InClaimC15 =>
        IF BagsInside("shiny gold") + 1 <= U32Max
        THEN d07_result = Ok(BagsInside("shiny gold"))
        ELSE d07_result.kind = "Panic"

\* C15 witness: part_2 has returned the total of a shiny gold bag that
\* holds two colours, one of them holding bags itself.
C15_Witness ==
    /\ InClaimC15
    /\ d07_result.kind = "Ok"
    /\ Cardinality(DOMAIN InsideOf("shiny gold")) = 2
    /\ \E d \in DOMAIN InsideOf("shiny gold") :
          /\ InsideOf("shiny gold")[d] = 2
          /\ DOMAIN InsideOf(d) # {}
    /\ d07_result.value >= 5

\* No colour has two rule lines.
NoColourDefinedTwice ==
    \A j, k \in 1..Len(rule_lines) :
        j # k => rule_lines[j].color # rule_lines[k].color

\* The colours some rule names as contained.
ContainedColours ==
    UNION {DOMAIN rule_lines[k].bags_inside : k \in 1..Len(rule_lines)}

\* C22: parse_luggage_rules, on syntactically valid lines with no colour
\* defined twice, returns an error if and only if some colour named as
\* contained by a rule has no rule line of its own anywhere in the input.
C22_ParseErrorIffUnspecified ==
    (/\ d07_entry = "parse_luggage_rules"
     /\ d07_result # NoResult
     /\ NoColourDefinedTwice)
        => (d07_result.kind = "Err" <=> ~(ContainedColours \subseteq RuledColours))

\* C23: for every rule set accepted by parse_luggage_rules, the memoised
\* recursions of part_1 (does_color_contain_color) and part_2
\* (num_bags_for_color) terminate and never look up a colour that has no
\* rule.
C23_RecursionsTerminate ==
    (/\ d07_entry \in {"part_1", "part_2"}
     /\ d07_result # NoResult
     /\ Accepted)
        => /\ d07_result # StackOverflow
           /\ d07_result # NoRuleForContainer

(***************************************************************************)
(*                          CLAIMS: DAY 3                                  *)
(***************************************************************************)

AreaHeight == Len(area_tiles) \div definition_width

\* The tile at row r and column c of the area.
TileAtRowCol(r, c) == area_tiles[r * definition_width + c + 1]

\* C16: with horizontal step h on an area of width w and height H (h < w,
\* H > 1), iter_slope_tiles yields exactly H - 1 area_tiles, the k-th
\* (k = 1 .. H-1) being the tile at row k and column (k * h) mod w; the
\* starting tile at row 0, column 0 is not yielded.
C16_IterSlopeTiles ==
    (d03_pc \in {"iterating", "exhausted", "failed"}
         /\ horiz_step < definition_width /\ AreaHeight > 1) =>
        /\ d03_pc # "failed"
        /\ Len(d03_yielded) <= AreaHeight - 1
        /\ d03_pc = "exhausted" => Len(d03_yielded) = AreaHeight - 1
        /\ \A k \in 1..Len(d03_yielded) :
              /\ d03_positions[k] =
                    k * definition_width + ((k * horiz_step) % definition_width)
              /\ d03_yielded[k] =
                    TileAtRowCol(k, (k * horiz_step) % definition_width)
        /\ \A k \in 1..Len(d03_positions) : d03_positions[k] # 0

\* C16 witness: an exhausted iterator over an area of at least three rows
\* whose slope wrapped around the right edge and met the tree.
C16_Witness ==
    /\ d03_pc = "exhausted"
    /\ AreaHeight >= 3
    /\ horiz_step = 2
    /\ definition_width = 3
    /\ \E k \in 1..Len(d03_yielded) :
          /\ k * horiz_step >= definition_width
          /\ d03_yielded[k] = "Tree"

\* C16 second case: a step not below the width, or a single row, is refused.
C16_WitnessRefused ==
    /\ d03_pc = "failed"
    /\ horiz_step < definition_width

(***************************************************************************)
(*                          CLAIMS: DAY 5                                  *)
(***************************************************************************)

\* Seven characters from {F, B} followed by three from {L, R}.
IsBoardingPass(s) ==
    /\ Len(s) = 10
    /\ \A k \in 1..7 : s[k] \in {"F", "B"}
    /\ \A k \in 8..10 : s[k] \in {"L", "R"}

\* The number whose binary digits, most significant first, are the
\* characters s[from .. to], `one` standing for 1.
RECURSIVE BinaryValue(_, _, _, _)
BinaryValue(s, from, to, one) ==
    IF from > to
    THEN 0
    ELSE 2 * BinaryValue(s, from, to - 1, one) + (IF s[to] = one THEN 1 ELSE 0)

RowOfPass(s) == BinaryValue(s, 1, 7, "B")

ColumnOfPass(s) == BinaryValue(s, 8, 10, "R")

\* C17: SeatId::from_str on seven characters from {F, B} followed by three
\* from {L, R} yields id = row * 8 + column, with row the 7-bit number read
\* with B = 1, F = 0 and column the 3-bit number read with R = 1, L = 0;
\* row_and_seat() of that id returns exactly (row, column); every other
\* string is rejected with an error.
C17_SeatIdFromStr ==
    /\ (d05_seat_id # NoResult) =>
          IF IsBoardingPass(d05_s)
          THEN d05_seat_id = Ok(RowOfPass(d05_s) * 8 + ColumnOfPass(d05_s))
          ELSE d05_seat_id.kind = "Err"
    /\ (d05_row_and_seat # NoResult) =>
          d05_row_and_seat = Ok(<<RowOfPass(d05_s), ColumnOfPass(d05_s)>>)

\* C17 witness: the first sample string, parsed and split: row 44, column
\* 5, id 357.
C17_Witness ==
    /\ d05_s = <<"F", "B", "F", "B", "B", "F", "F", "R", "L", "R">>
    /\ d05_seat_id = Ok(357)
    /\ d05_row_and_seat = Ok(<<44, 5>>)

\* C17 second case: a string of ten bytes but nine characters is rejected.
C17_WitnessRejected ==
    /\ d05_seat_id # NoResult
    /\ d05_seat_id.kind = "Err"
    /\ Len(d05_s) = 9
    /\ StrLen(d05_s) = 10

(***************************************************************************)
(*                          CLAIMS: DAY 2                                  *)
(***************************************************************************)

IsNumberText(s) == s # <<>> /\ \A k \in 1..Len(s) : s[k] \in DigitChars

\* The line reads <lower>-<upper> <char>: <password>, lower being its
\* first a characters and upper the b characters after the dash.
ReadsAs(l, a, b) ==
    /\ Len(l) >= a + b + 5
    /\ IsNumberText(SubSeq(l, 1, a))
    /\ l[a + 1] = "-"
    /\ IsNumberText(SubSeq(l, a + 2, a + b + 1))
    /\ l[a + b + 2] = " "
    /\ l[a + b + 4] = ":"
    /\ l[a + b + 5] = " "

IsZeroText(s) == \A k \in 1..Len(s) : s[k] = "0"

\* A non-empty line that does not match the form, or, for the positional
\* policy, one of whose positions is 0.
MalformedLine(l, positional) ==
    /\ l # <<>>
    /\ \/ ~ \E a \in 1..Len(l), b \in 1..Len(l) : ReadsAs(l, a, b)
       \/ /\ positional
          /\ \E a \in 1..Len(l), b \in 1..Len(l) :
                /\ ReadsAs(l, a, b)
                /\ \/ IsZeroText(SubSeq(l, 1, a))
                   \/ IsZeroText(SubSeq(l, a + 2, a + b + 1))

\* C18: part_1 and part_2 fail (return an error or panic) instead of
\* producing a count when a non-empty input line does not match
\* <lower>-<upper> <char>: <password>, or has position 0 for the positional
\* policy.
C18_MalformedInputFails ==
    (/\ d02_entry \in {"part_1", "part_2"}
     /\ d02_result # NoResult
     /\ \E k \in 1..Len(d02_lines) : MalformedLine(d02_lines[k], d02_entry = "part_2"))
        => d02_result.kind # "Ok"

\* The 1-based position of the password holds the character; a position
\* past the end holds none.
HoldsAt(password, one_based_idx, character) ==
    one_based_idx <= Len(password) /\ password[one_based_idx] = character

\* C19: ActualPasswordPolicy::validate returns true iff exactly one of the
\* policy's two 1-based positions of the password holds the policy
\* character.
C19_ValidateExactlyOnePosition ==
    (d02_entry = "validate" /\ d02_result # NoResult) =>
        d02_result =
            Ok(Cardinality({p \in 1..2 :
                   HoldsAt(d02_password, d02_policy.positions[p], d02_policy.character)}) = 1)

=============================================================================
